---- MODULE Spec2Model ----
(***************************************************************************)
(* GoLiteKit request-execution core.                                       *)
(*                                                                         *)
(* Part I   - the request pipeline of one request:                         *)
(*            ErrorHandlerMiddleware -> (Logger, Tracker) ->                *)
(*            TimeoutMiddleware -> handler, with the deferred response      *)
(*            writer, the request-scoped error slot, the panic logger and   *)
(*            the supervised worker goroutine.                              *)
(* Part II  - CloneController: the reflective deep copy of a controller     *)
(*            template into a per-request instance.                         *)
(* Part III - the two response writers on their own: a caller drives a      *)
(*            timeoutResponseWriter or a deferredResponseWriter through any  *)
(*            sequence of its methods.                                       *)
(* Part IV  - MiddlewareQueue (Use, Clone, Apply), the error slot of the     *)
(*            request context, and route registration.                       *)
(***************************************************************************)
EXTENDS Integers, Sequences, FiniteSets, TLC

VARIABLES
    \* ---- Part I: pipeline ----
    timeout,        \* env.WriteTimeout() as seen by TimeoutMiddleware
    script,         \* the handler: the operations it performs, in order
    hpc,            \* index of the handler's next operation
    handlerPanicked,\* the handler has raised its panic
    mpc,            \* position of the request goroutine (ServeHTTP caller)
    wpc,            \* position of the worker goroutine of TimeoutMiddleware
    ctxErr,         \* ctx.Err() of the context made by WithTimeoutCause
    doneChan,       \* chan struct{} of capacity 1
    panicChan,      \* chan any of capacity 1
    recovered,      \* value held by recover() on the goroutine unwinding
    resolved,       \* which case of the supervisor's select ran
    errorSlot,      \* gcx.data[AppErrorKey]
    dw,             \* the deferredResponseWriter of ErrorHandlerMiddleware
    wire,           \* calls received by the underlying http.ResponseWriter
    reports,        \* values passed to PanicLogger.Report
    crashed,        \* the process died of a panic no goroutine recovered
    callbacks,      \* calls made to cfg.onError and cfg.onPanic
    \* ---- Part II: CloneController ----
    tmpl,           \* the registered controller template (a pointer, maybe nil)
    heap,           \* the cells every reference points into
    rpc,            \* position of each request in createControllerHandler
    inst,           \* the instance CloneController builds for each request
    nops,           \* field writes and lock operations made around the clones
    invoked,        \* calls made to the callable, by the value they went through
    \* ---- Part III: the response writers on their own ----
    tw,             \* a timeoutResponseWriter
    twOrig,         \* tw.ResponseWriter, the writer it wraps
    twHist,         \* the calls made on tw, each with what it returned
    twAtTimeout,    \* tw and twOrig as they were when markTimeout was first called
    ds,             \* a deferredResponseWriter
    dsOrig,         \* ds.ResponseWriter, the writer it wraps
    dsStart,        \* dsOrig as it was handed to newDeferredResponseWriter
    dsHist,         \* the calls made on ds
    \* ---- Part IV: stage lists, the error slot, route registration ----
    backing,        \* the arrays the MiddlewareQueue slices point into
    smq,            \* s.mq, the server's list of stages
    gmq,            \* a list made by s.mq.Clone()
    order,          \* what the stages and the handler of one request did
    served,         \* the list and the request that produced order
    gcx,            \* a context.Context: whether it carries a *Context, and its data
    gcxHist,        \* the calls made on gcx, each with what it returned
    methodHandlers, \* s.methodHandlers: path -> method -> handler
    muxPatterns,    \* the paths handed to s.mux.HandleFunc
    regHist,        \* the registrations made, in order
    \* ---- Part V: configuration and the request's headers ----
    env,            \* defaultEnv: the configured timeouts, in milliseconds
    accept,         \* the request's Accept header
    \* ---- Part V: RateLimiter ----
    rl,             \* the RateLimiter: mu, limiters, ttl
    calls,          \* the goroutines calling GetLimiter, each with its locals
    sleepers,       \* the goroutines GetLimiter started to remove a key
    \* ---- Part V: two goroutines on one timeoutResponseWriter ----
    sinkMu,         \* tw.mu: the goroutine that holds it
    hcall,          \* the handler goroutine: its call on tw and where it is in it
    tpc,            \* the deadline goroutine: where it is in markTimeout
    \* ---- Part V: routes of a server with a route group ----
    routes,         \* each route: whether registered, and the group list it was given
    \* ---- Part V: the controller lifecycle of one request ----
    life            \* the request served: its step, what each step returns, the steps run

pvars == <<timeout, script, hpc, handlerPanicked, mpc, wpc, ctxErr, doneChan,
           panicChan, recovered, resolved, errorSlot, dw, wire, reports, crashed,
           callbacks>>

cvars == <<tmpl, heap, rpc, inst, nops, invoked>>

svars == <<tw, twOrig, twHist, twAtTimeout, ds, dsOrig, dsStart, dsHist>>

xvars == <<backing, smq, gmq, order, served, gcx, gcxHist, methodHandlers,
           muxPatterns, regHist>>

yvars == <<env, accept, rl, calls, sleepers, sinkMu, hcall, tpc, routes, life>>

vars == <<pvars, cvars, svars, xvars, yvars>>

(***************************************************************************)
(* Bounds and program constants                                            *)
(***************************************************************************)
MaxSteps == 2

StatusOK == 200
StatusCreated == 201
StatusBadRequest == 400
StatusRequestTimeout == 408
StatusInternalServerError == 500

Ops == {"Write", "WriteHeader", "Header.Set", "SetError", "panic"}

RECURSIVE SeqsUpTo(_, _)
SeqsUpTo(S, n) ==
    IF n = 0 THEN {<<>>}
    ELSE LET shorter == SeqsUpTo(S, n - 1)
         IN  shorter \cup {Append(s, x) : s \in {t \in shorter : Len(t) = n - 1}, x \in S}

Scripts == SeqsUpTo(Ops, MaxSteps)

PanicValue == "boom"

(***************************************************************************)
(* AppError and the request-scoped error slot                              *)
(***************************************************************************)
NilError == [Code |-> 0, Message |-> ""]

ErrBadRequest(msg) == [Code |-> StatusBadRequest, Message |-> msg]

ErrTimeout(msg) == [Code |-> StatusRequestTimeout, Message |-> msg]

SetError(slot, err) == err

\* a lookup that reports an error whatever the slot holds
GetErrorAlways(slot) == ErrBadRequest("invalid input")

GetError(slot) == slot

(***************************************************************************)
(* http.Header: the values of each header name, in the order they were     *)
(* added.                                                                  *)
(***************************************************************************)
HeaderNames == {"Content-Type", "X-Custom"}

EmptyHeader == [k \in HeaderNames |-> <<>>]

HeaderSet(h, k, v) == [h EXCEPT ![k] = <<v>>]

\* for k, v := range from { for _, vv := range v { h.Add(k, vv) } }
HeaderAddAll(h, from) == [k \in HeaderNames |-> h[k] \o from[k]]

(***************************************************************************)
(* The underlying http.ResponseWriter: it records the calls it receives.   *)
(* header is its header map, sent the copy of that map taken by the first  *)
(* WriteHeader, which is what goes out with the status line.               *)
(* A Write before any WriteHeader sends the default status first.          *)
(***************************************************************************)
NewWire == [header |-> EmptyHeader, sent |-> EmptyHeader, status |-> <<>>,
            body |-> <<>>, flushes |-> 0]

UnderlyingWriteHeader(w, by, code) ==
    [w EXCEPT !.status = Append(@, [by |-> by, code |-> code]),
              !.sent = IF w.status = <<>> THEN w.header ELSE @]

UnderlyingFlush(w) == [w EXCEPT !.flushes = @ + 1]

UnderlyingWrite(w, by, tok) ==
    LET w1 == IF w.status = <<>> THEN UnderlyingWriteHeader(w, by, StatusOK) ELSE w
    IN  [w1 EXCEPT !.body = Append(@, [by |-> by, tok |-> tok])]

RECURSIVE UnderlyingWriteAll(_, _, _)
UnderlyingWriteAll(w, by, toks) ==
    IF toks = <<>> THEN w
    ELSE UnderlyingWriteAll(
            [w EXCEPT !.body = Append(@, [by |-> by, tok |-> Head(toks)])],
            by, Tail(toks))

(***************************************************************************)
(* deferredResponseWriter                                                  *)
(* Each operation takes the sink d and the underlying writer w and yields  *)
(* both after the call.                                                    *)
(***************************************************************************)
newDeferredResponseWriter ==
    [buffer |-> <<>>, header |-> EmptyHeader, statusCode |-> StatusOK,
     isCommitted |-> FALSE, isHeaderWritten |-> FALSE]

\* Write that goes to the wrapped writer whether committed or not
DwWriteThrough(d, w, by, tok) == [d |-> d, w |-> UnderlyingWrite(w, by, tok)]

DwWrite(d, w, by, tok) ==
    IF d.isCommitted
    THEN [d |-> d, w |-> UnderlyingWrite(w, by, tok)]
    ELSE [d |-> [d EXCEPT !.buffer = Append(@, tok)], w |-> w]

\* WriteHeader that lets the last code win
DwWriteHeaderLast(d, w, code) ==
    [d |-> [d EXCEPT !.isHeaderWritten = TRUE, !.statusCode = code], w |-> w]

DwWriteHeader(d, w, code) ==
    IF d.isHeaderWritten
    THEN [d |-> d, w |-> w]
    ELSE [d |-> [d EXCEPT !.isHeaderWritten = TRUE, !.statusCode = code], w |-> w]

\* Commit that sends the status line before it copies the headers
DwCommitStatusFirst(d, w) ==
    IF d.isCommitted
    THEN [d |-> d, w |-> w]
    ELSE LET w1 == UnderlyingWriteHeader(w, "commit", d.statusCode)
             w2 == [w1 EXCEPT !.header = HeaderAddAll(@, d.header)]
         IN  [d |-> [d EXCEPT !.isCommitted = TRUE],
              w |-> UnderlyingWriteAll(w2, "commit", d.buffer)]

DwCommit(d, w) ==
    IF d.isCommitted
    THEN [d |-> d, w |-> w]
    ELSE LET w1 == [w EXCEPT !.header = HeaderAddAll(@, d.header)]
             w2 == UnderlyingWriteHeader(w1, "commit", d.statusCode)
         IN  [d |-> [d EXCEPT !.isCommitted = TRUE],
              w |-> UnderlyingWriteAll(w2, "commit", d.buffer)]

\* Header().Set(k, v): Header() is the wrapped writer's map once committed
DwHeaderSet(d, w, k, v) ==
    IF d.isCommitted
    THEN [d |-> d, w |-> [w EXCEPT !.header = HeaderSet(@, k, v)]]
    ELSE [d |-> [d EXCEPT !.header = HeaderSet(@, k, v)], w |-> w]

DwFlush(d, w) ==
    IF ~d.isCommitted
    THEN [d |-> d, w |-> w]
    ELSE [d |-> d, w |-> UnderlyingFlush(w)]

\* Reset that keeps the buffered headers
DwResetKeepHeader(d) ==
    [d EXCEPT !.buffer = <<>>, !.statusCode = StatusOK,
              !.isCommitted = FALSE, !.isHeaderWritten = FALSE]

DwReset(d) ==
    [d EXCEPT !.buffer = <<>>, !.header = EmptyHeader, !.statusCode = StatusOK,
              !.isCommitted = FALSE, !.isHeaderWritten = FALSE]

(***************************************************************************)
(* Error and panic responders of ErrorHandlerMiddleware                    *)
(***************************************************************************)
\* a formatter that writes the body without sending the error's status
formatterWithoutStatus(w, err) ==
    UnderlyingWrite([w EXCEPT !.header =
                        HeaderSet(@, "Content-Type", "application/json; charset=utf-8")],
                    "errorResponder", err.Message)

defaultErrorFormatter(w, err) ==
    LET w1 == [w EXCEPT !.header =
                  HeaderSet(@, "Content-Type", "application/json; charset=utf-8")]
        w2 == UnderlyingWriteHeader(w1, "errorResponder", err.Code)
    IN  UnderlyingWrite(w2, "errorResponder", err.Message)

handleAppError(w, err) == defaultErrorFormatter(w, err)

PanicResponseBody(p) == "Internal Server Error"

handlePanicRespond(w, p) ==
    LET w1 == [w EXCEPT !.header =
                  HeaderSet(@, "Content-Type", "application/json; charset=utf-8")]
        w2 == UnderlyingWriteHeader(w1, "panicResponder", StatusInternalServerError)
    IN  UnderlyingWrite(w2, "panicResponder", PanicResponseBody(p))

PanicLoggerReport(log, p) == Append(log, p)

(***************************************************************************)
(* Channels of TimeoutMiddleware                                           *)
(***************************************************************************)
MakeChan == [buf |-> <<>>, closed |-> FALSE]

CloseChan(c) == [c EXCEPT !.closed = TRUE]

SendChan(c, v) == [c EXCEPT !.buf = Append(@, v)]

RecvChan(c) == [c EXCEPT !.buf = Tail(@)]

NoPanic == ""

SendOnClosed == "send on closed channel"

(***************************************************************************)
(* Initial state of the pipeline: the request has reached                  *)
(* createControllerHandler; nothing has run yet.                           *)
(***************************************************************************)
PipelineIdle ==
    /\ hpc = 1
    /\ handlerPanicked = FALSE
    /\ mpc = "start"
    /\ wpc = "none"
    /\ ctxErr = "none"
    /\ doneChan = MakeChan
    /\ panicChan = MakeChan
    /\ recovered = NoPanic
    /\ resolved = "none"
    /\ errorSlot = NilError
    /\ dw = newDeferredResponseWriter
    /\ wire = NewWire
    /\ reports = <<>>
    /\ crashed = FALSE
    /\ callbacks = [onError |-> 0, onPanic |-> 0]

\* env.WriteTimeout(): negative, zero, or a positive duration
Timeouts == {0 - 1, 0, 1}

PipelineInit ==
    /\ timeout \in Timeouts
    /\ script \in Scripts
    /\ PipelineIdle

(***************************************************************************)
(* One operation of the handler, run on whichever goroutine executes it.   *)
(* A body write is tagged "late" when it happens after the deadline timer  *)
(* has fired.                                                              *)
(***************************************************************************)
WriteToken == IF ctxErr = "deadline" THEN "late" ELSE "body"

HandlerOp(op) ==
    /\ hpc' = hpc + 1
    /\ CASE op = "Write" ->
              LET r == DwWrite(dw, wire, "handler", WriteToken)
              IN  /\ dw' = r.d
                  /\ wire' = r.w
                  /\ UNCHANGED <<errorSlot, handlerPanicked>>
         [] op = "WriteHeader" ->
              LET r == DwWriteHeader(dw, wire, StatusCreated)
              IN  /\ dw' = r.d
                  /\ wire' = r.w
                  /\ UNCHANGED <<errorSlot, handlerPanicked>>
         [] op = "Header.Set" ->
              LET r == DwHeaderSet(dw, wire, "X-Custom", "value")
              IN  /\ dw' = r.d
                  /\ wire' = r.w
                  /\ UNCHANGED <<errorSlot, handlerPanicked>>
         [] op = "SetError" ->
              /\ errorSlot' = SetError(errorSlot, ErrBadRequest("invalid input"))
              /\ UNCHANGED <<dw, wire, handlerPanicked>>
         [] op = "panic" ->
              /\ handlerPanicked' = TRUE
              /\ UNCHANGED <<dw, wire, errorSlot>>

(***************************************************************************)
(* ErrorHandlerMiddleware, request goroutine                               *)
(***************************************************************************)
ErrorHandlerEnter ==
    /\ ~crashed
    /\ mpc = "start"
    /\ dw' = newDeferredResponseWriter
    /\ mpc' = "timeout"
    /\ UNCHANGED <<timeout, script, hpc, handlerPanicked, wpc, ctxErr, doneChan,
                   panicChan, recovered, resolved, errorSlot, wire, reports, crashed>>
    /\ UNCHANGED <<callbacks, cvars, svars, xvars, yvars>>

ErrorHandlerCheck ==
    /\ ~crashed
    /\ mpc = "ehCheck"
    /\ mpc' = IF GetError(errorSlot) # NilError THEN "ehReset" ELSE "ehCommit"
    /\ UNCHANGED <<timeout, script, hpc, handlerPanicked, wpc, ctxErr, doneChan,
                   panicChan, recovered, resolved, errorSlot, dw, wire, reports, crashed>>
    /\ UNCHANGED <<callbacks, cvars, svars, xvars, yvars>>

ErrorHandlerReset ==
    /\ ~crashed
    /\ mpc = "ehReset"
    /\ dw' = DwReset(dw)
    /\ mpc' = "ehRespond"
    /\ UNCHANGED <<timeout, script, hpc, handlerPanicked, wpc, ctxErr, doneChan,
                   panicChan, recovered, resolved, errorSlot, wire, reports, crashed>>
    /\ UNCHANGED <<callbacks, cvars, svars, xvars, yvars>>

ErrorHandlerRespond ==
    /\ ~crashed
    /\ mpc = "ehRespond"
    /\ callbacks' = [callbacks EXCEPT !.onError = @ + 1]
    /\ wire' = handleAppError(wire, GetError(errorSlot))
    /\ mpc' = "done"
    /\ UNCHANGED <<timeout, script, hpc, handlerPanicked, wpc, ctxErr, doneChan,
                   panicChan, recovered, resolved, errorSlot, dw, reports, crashed>>
    /\ UNCHANGED <<cvars, svars, xvars, yvars>>

ErrorHandlerCommit ==
    /\ ~crashed
    /\ mpc = "ehCommit"
    /\ LET r == DwCommit(dw, wire)
       IN  /\ dw' = r.d
           /\ wire' = r.w
    /\ mpc' = "done"
    /\ UNCHANGED <<timeout, script, hpc, handlerPanicked, wpc, ctxErr, doneChan,
                   panicChan, recovered, resolved, errorSlot, reports, crashed>>
    /\ UNCHANGED <<callbacks, cvars, svars, xvars, yvars>>

\* the deferred recover of ErrorHandlerMiddleware, then handlePanic
handlePanic ==
    /\ ~crashed
    /\ mpc = "panicking"
    /\ reports' = PanicLoggerReport(reports, recovered)
    /\ callbacks' = [callbacks EXCEPT !.onPanic = @ + 1]
    /\ wire' = handlePanicRespond(wire, recovered)
    /\ mpc' = "done"
    /\ UNCHANGED <<timeout, script, hpc, handlerPanicked, wpc, ctxErr, doneChan,
                   panicChan, recovered, resolved, errorSlot, dw, crashed>>
    /\ UNCHANGED <<cvars, svars, xvars, yvars>>

(***************************************************************************)
(* TimeoutMiddleware, request goroutine                                    *)
(***************************************************************************)
\* a test that lets only a zero timeout through unsupervised
UnsupervisedZeroOnly(t) == t = 0

\* if timeout < 1
Unsupervised(t) == t < 1

\* timeout < 1: next.ServeHTTP(w, r) on the calling goroutine
TimeoutEnterSync ==
    /\ ~crashed
    /\ mpc = "timeout"
    /\ Unsupervised(timeout)
    /\ mpc' = "sync"
    /\ UNCHANGED <<timeout, script, hpc, handlerPanicked, wpc, ctxErr, doneChan,
                   panicChan, recovered, resolved, errorSlot, dw, wire, reports, crashed>>
    /\ UNCHANGED <<callbacks, cvars, svars, xvars, yvars>>

SyncHandlerStep ==
    /\ ~crashed
    /\ mpc = "sync"
    /\ hpc <= Len(script)
    /\ HandlerOp(script[hpc])
    /\ IF script[hpc] = "panic"
       THEN /\ recovered' = PanicValue
            /\ mpc' = "panicking"
       ELSE UNCHANGED <<recovered, mpc>>
    /\ UNCHANGED <<timeout, script, wpc, ctxErr, doneChan, panicChan, resolved,
                   reports, crashed>>
    /\ UNCHANGED <<callbacks, cvars, svars, xvars, yvars>>

SyncHandlerReturn ==
    /\ ~crashed
    /\ mpc = "sync"
    /\ hpc > Len(script)
    /\ mpc' = "ehCheck"
    /\ UNCHANGED <<timeout, script, hpc, handlerPanicked, wpc, ctxErr, doneChan,
                   panicChan, recovered, resolved, errorSlot, dw, wire, reports, crashed>>
    /\ UNCHANGED <<callbacks, cvars, svars, xvars, yvars>>

\* timeout >= 1: WithTimeoutCause, the two channels, go func()
TimeoutEnterSupervised ==
    /\ ~crashed
    /\ mpc = "timeout"
    /\ ~Unsupervised(timeout)
    /\ ctxErr' = "none"
    /\ doneChan' = MakeChan
    /\ panicChan' = MakeChan
    /\ wpc' = "check1"
    /\ mpc' = "select"
    /\ UNCHANGED <<timeout, script, hpc, handlerPanicked, recovered, resolved,
                   errorSlot, dw, wire, reports, crashed>>
    /\ UNCHANGED <<callbacks, cvars, svars, xvars, yvars>>

\* the deadline timer of the context fires
TimerFire ==
    /\ ~crashed
    /\ mpc \in {"select", "closePanic", "closeDone", "cancel"}
    /\ ctxErr = "none"
    /\ ctxErr' = "deadline"
    /\ UNCHANGED <<timeout, script, hpc, handlerPanicked, mpc, wpc, doneChan,
                   panicChan, recovered, resolved, errorSlot, dw, wire, reports, crashed>>
    /\ UNCHANGED <<callbacks, cvars, svars, xvars, yvars>>

\* the parent context r.Context() is cancelled (the client went away)
ParentCancel ==
    /\ ~crashed
    /\ mpc \in {"select", "closePanic", "closeDone", "cancel"}
    /\ ctxErr = "none"
    /\ ctxErr' = "canceled"
    /\ UNCHANGED <<timeout, script, hpc, handlerPanicked, mpc, wpc, doneChan,
                   panicChan, recovered, resolved, errorSlot, dw, wire, reports, crashed>>
    /\ UNCHANGED <<callbacks, cvars, svars, xvars, yvars>>

\* a supervisor that raised the received panic again on the request goroutine
SupervisorReRaise == "panicking"

\* a supervisor that went back to its select after logging the panic
SupervisorReselect == "select"

\* case p := <-panicChan: log.Printf and fall out of the select, into the
\* deferred calls
SupervisorOnPanic == "closePanic"

\* select { case p := <-panicChan ... case <-ctx.Done() ... case <-doneChan }
SupervisorSelect ==
    /\ ~crashed
    /\ mpc = "select"
    /\ \/ /\ panicChan.buf # <<>>
          /\ panicChan' = RecvChan(panicChan)
          /\ resolved' = "panicked"
          /\ mpc' = SupervisorOnPanic
          /\ UNCHANGED doneChan
       \/ /\ ctxErr # "none"
          /\ resolved' = IF ctxErr = "deadline" THEN "timedout" ELSE "canceled"
          /\ mpc' = "closePanic"
          /\ UNCHANGED <<doneChan, panicChan>>
       \/ /\ doneChan.buf # <<>>
          /\ doneChan' = RecvChan(doneChan)
          /\ resolved' = "completed"
          /\ mpc' = "closePanic"
          /\ UNCHANGED panicChan
    /\ UNCHANGED <<timeout, script, hpc, handlerPanicked, wpc, ctxErr, recovered,
                   errorSlot, dw, wire, reports, crashed>>
    /\ UNCHANGED <<callbacks, cvars, svars, xvars, yvars>>

\* defer close(panicChan)
SupervisorClosePanic ==
    /\ ~crashed
    /\ mpc = "closePanic"
    /\ panicChan' = CloseChan(panicChan)
    /\ mpc' = "closeDone"
    /\ UNCHANGED <<timeout, script, hpc, handlerPanicked, wpc, ctxErr, doneChan,
                   recovered, resolved, errorSlot, dw, wire, reports, crashed>>
    /\ UNCHANGED <<callbacks, cvars, svars, xvars, yvars>>

\* defer close(doneChan)
SupervisorCloseDone ==
    /\ ~crashed
    /\ mpc = "closeDone"
    /\ doneChan' = CloseChan(doneChan)
    /\ mpc' = "cancel"
    /\ UNCHANGED <<timeout, script, hpc, handlerPanicked, wpc, ctxErr, panicChan,
                   recovered, resolved, errorSlot, dw, wire, reports, crashed>>
    /\ UNCHANGED <<callbacks, cvars, svars, xvars, yvars>>

\* defer cancel(), then the return into ErrorHandlerMiddleware
SupervisorCancel ==
    /\ ~crashed
    /\ mpc = "cancel"
    /\ ctxErr' = IF ctxErr = "none" THEN "canceled" ELSE ctxErr
    /\ mpc' = "ehCheck"
    /\ UNCHANGED <<timeout, script, hpc, handlerPanicked, wpc, doneChan, panicChan,
                   recovered, resolved, errorSlot, dw, wire, reports, crashed>>
    /\ UNCHANGED <<callbacks, cvars, svars, xvars, yvars>>

(***************************************************************************)
(* TimeoutMiddleware, worker goroutine                                     *)
(***************************************************************************)
\* select { case <-ctx.Done(): return; default: next.ServeHTTP(w, r) }
\* a checkpoint that never sees the context end
CtxDoneNever(err) == FALSE

\* case <-ctx.Done(): the context has ended
CtxDone(err) == err # "none"

WorkerCheckBefore ==
    /\ ~crashed
    /\ wpc = "check1"
    /\ wpc' = IF CtxDone(ctxErr) THEN "exit" ELSE "run"
    /\ UNCHANGED <<timeout, script, hpc, handlerPanicked, mpc, ctxErr, doneChan,
                   panicChan, recovered, resolved, errorSlot, dw, wire, reports, crashed>>
    /\ UNCHANGED <<callbacks, cvars, svars, xvars, yvars>>

WorkerHandlerStep ==
    /\ ~crashed
    /\ wpc = "run"
    /\ hpc <= Len(script)
    /\ HandlerOp(script[hpc])
    /\ IF script[hpc] = "panic"
       THEN /\ recovered' = PanicValue
            /\ wpc' = "recover"
       ELSE UNCHANGED <<recovered, wpc>>
    /\ UNCHANGED <<timeout, script, mpc, ctxErr, doneChan, panicChan, resolved,
                   reports, crashed>>
    /\ UNCHANGED <<callbacks, cvars, svars, xvars, yvars>>

WorkerHandlerReturn ==
    /\ ~crashed
    /\ wpc = "run"
    /\ hpc > Len(script)
    /\ wpc' = "check2"
    /\ UNCHANGED <<timeout, script, hpc, handlerPanicked, mpc, ctxErr, doneChan,
                   panicChan, recovered, resolved, errorSlot, dw, wire, reports, crashed>>
    /\ UNCHANGED <<callbacks, cvars, svars, xvars, yvars>>

\* select { case <-ctx.Done(): return; default: }
WorkerCheckAfter ==
    /\ ~crashed
    /\ wpc = "check2"
    /\ wpc' = IF CtxDone(ctxErr) THEN "exit" ELSE "sendDone"
    /\ UNCHANGED <<timeout, script, hpc, handlerPanicked, mpc, ctxErr, doneChan,
                   panicChan, recovered, resolved, errorSlot, dw, wire, reports, crashed>>
    /\ UNCHANGED <<callbacks, cvars, svars, xvars, yvars>>

\* doneChan <- struct{}{}; a send on the closed channel panics in the worker
WorkerSendDone ==
    /\ ~crashed
    /\ wpc = "sendDone"
    /\ IF doneChan.closed
       THEN /\ recovered' = SendOnClosed
            /\ wpc' = "recover"
            /\ UNCHANGED doneChan
       ELSE /\ doneChan' = SendChan(doneChan, "done")
            /\ wpc' = "exit"
            /\ UNCHANGED recovered
    /\ UNCHANGED <<timeout, script, hpc, handlerPanicked, mpc, ctxErr, panicChan,
                   resolved, errorSlot, dw, wire, reports, crashed>>
    /\ UNCHANGED <<callbacks, cvars, svars, xvars, yvars>>

\* the worker's deferred func: recover, Report, then the ctx.Err() test
WorkerRecover ==
    /\ ~crashed
    /\ wpc = "recover"
    /\ reports' = PanicLoggerReport(reports, recovered)
    /\ wpc' = IF ctxErr # "none" /\ ctxErr # "canceled" THEN "exit" ELSE "sendPanic"
    /\ UNCHANGED <<timeout, script, hpc, handlerPanicked, mpc, ctxErr, doneChan,
                   panicChan, recovered, resolved, errorSlot, dw, wire, crashed>>
    /\ UNCHANGED <<callbacks, cvars, svars, xvars, yvars>>

\* panicChan <- p inside the deferred func: on the closed channel it panics
\* with nothing left to recover it
WorkerSendPanic ==
    /\ ~crashed
    /\ wpc = "sendPanic"
    /\ IF panicChan.closed
       THEN /\ crashed' = TRUE
            /\ UNCHANGED <<panicChan, wpc>>
       ELSE /\ panicChan' = SendChan(panicChan, recovered)
            /\ wpc' = "exit"
            /\ UNCHANGED crashed
    /\ UNCHANGED <<timeout, script, hpc, handlerPanicked, mpc, ctxErr, doneChan,
                   recovered, resolved, errorSlot, dw, wire, reports>>
    /\ UNCHANGED <<callbacks, cvars, svars, xvars, yvars>>

PipelineNext ==
    \/ ErrorHandlerEnter
    \/ ErrorHandlerCheck
    \/ ErrorHandlerReset
    \/ ErrorHandlerRespond
    \/ ErrorHandlerCommit
    \/ handlePanic
    \/ TimeoutEnterSync
    \/ SyncHandlerStep
    \/ SyncHandlerReturn
    \/ TimeoutEnterSupervised
    \/ TimerFire
    \/ ParentCancel
    \/ SupervisorSelect
    \/ SupervisorClosePanic
    \/ SupervisorCloseDone
    \/ SupervisorCancel
    \/ WorkerCheckBefore
    \/ WorkerHandlerStep
    \/ WorkerHandlerReturn
    \/ WorkerCheckAfter
    \/ WorkerSendDone
    \/ WorkerRecover
    \/ WorkerSendPanic

(***************************************************************************)
(* Part II - CloneController                                               *)
(*                                                                         *)
(* Go values.  Every value is a record [k, tn, n, ref, fs]:                *)
(*   k   the reflect.Kind: "int" (any scalar), "ptr", "slice", "map",      *)
(*       "iface", "chan", "func", "struct", "array"                        *)
(*   tn  the type's name as reflect.Type.String() gives it                 *)
(*   n   the scalar                                                        *)
(*   ref the address of the heap cell a reference kind points to, 0 = nil  *)
(*   fs  the slots held inline: struct fields, array elements, or the one  *)
(*       dynamic value of a non-nil interface                              *)
(* A slot is [name, exp, v]: field name (or map key), whether the field is *)
(* exported, and the value.  A heap cell is [kind, slots]: the pointee of  *)
(* a pointer, the elements of a slice, the entries of a map, the pending   *)
(* items of a channel, the captured variables of a closure.                *)
(***************************************************************************)
IntV(n) == [k |-> "int", tn |-> "int", n |-> n, ref |-> 0, fs |-> <<>>]

RefV(kind, ref) == [k |-> kind, tn |-> kind, n |-> 0, ref |-> ref, fs |-> <<>>]

StructV(tn, fs) == [k |-> "struct", tn |-> tn, n |-> 0, ref |-> 0, fs |-> fs]

ArrayV(fs) == [k |-> "array", tn |-> "array", n |-> 0, ref |-> 0, fs |-> fs]

IfaceV(fs) == [k |-> "iface", tn |-> "interface {}", n |-> 0, ref |-> 0, fs |-> fs]

Slot(name, exp, v) == [name |-> name, exp |-> exp, v |-> v]

Elem(v) == Slot("", TRUE, v)

Cell(kind, slots) == [kind |-> kind, slots |-> slots]

\* sync.Mutex{state, sema}: both fields unexported
MutexV(state) == StructV("sync.Mutex", <<Slot("state", FALSE, IntV(state))>>)

NilPtr == RefV("ptr", 0)

RefKinds == {"ptr", "slice", "map", "chan", "func"}

\* reflect.Zero / reflect.New(t).Elem(): the zero value of v's type
RECURSIVE Zero(_)
Zero(v) ==
    CASE v.k = "int" -> [v EXCEPT !.n = 0]
      [] v.k \in RefKinds -> [v EXCEPT !.ref = 0]
      [] v.k = "iface" -> [v EXCEPT !.fs = <<>>]
      [] OTHER -> [v EXCEPT !.fs = [i \in DOMAIN v.fs |->
                                       [v.fs[i] EXCEPT !.v = Zero(v.fs[i].v)]]]

\* reflect.Value.CanSet on a field of an addressable struct
CanSet(slot) == slot.exp

SyncTypeNames == {"sync.Mutex", "sync.RWMutex", "sync.WaitGroup", "sync.Once",
                  "sync.Cond", "sync.Pool", "sync.Map"}

isSyncType(v) == v.tn \in SyncTypeNames

RECURSIVE containsSyncType(_)
containsSyncType(v) ==
    /\ v.k = "struct"
    /\ \E i \in DOMAIN v.fs :
          \/ isSyncType(v.fs[i].v)
          \/ (v.fs[i].v.k = "struct" /\ containsSyncType(v.fs[i].v))

\* the result of a copy: the value built, the heap after it, and whether
\* reflect got through without panicking
Res(v, h, ok) == [v |-> v, h |-> h, ok |-> ok]

\* an allocator that hands out the newest existing cell again
ReuseCell(h, cell) == IF h = <<>> THEN <<cell>> ELSE [h EXCEPT ![Len(h)] = cell]

\* reflect.New / MakeSlice / MakeMap: a fresh cell at the next address
AllocCell(h, cell) == Append(h, cell)

Pointee(h, v) == h[v.ref].slots[1].v

\* newPtr := reflect.New(elemType); ...; Set(newPtr): the copied pointee r
\* goes into a fresh cell and p becomes a pointer to it
NewPointer(p, r) ==
    LET h2 == AllocCell(r.h, Cell("obj", <<Elem(r.v)>>))
    IN  Res([p EXCEPT !.ref = Len(h2)], h2, r.ok)

\* reflect.MakeSlice / reflect.MakeMap filled with the copied elements r.out
NewElemCell(p, r) ==
    LET h2 == AllocCell(r.h, Cell(p.k, r.out))
    IN  Res([p EXCEPT !.ref = Len(h2)], h2, r.ok)

\* the array (or struct) v with the copied elements r.out in place
WithElems(v, r) == Res([v EXCEPT !.fs = r.out], r.h, r.ok)

\* reflect.ValueOf(copied) set into an interface value
Boxed(src, r) == Res([src EXCEPT !.fs = <<Elem(r.v)>>], r.h, r.ok)

\* the state of a copy loop: the slots built, the heap, whether reflect panicked
LoopStart(h) == [out |-> <<>>, h |-> h, ok |-> TRUE]

\* dstElem.Set(...) / SetMapIndex(...): slot, now holding r.v, joins the output
Extend(acc, slot, r) ==
    [out |-> Append(acc.out, [slot EXCEPT !.v = r.v]), h |-> r.h, ok |-> r.ok]

\* the end of copyFields: dst with its fields set, unless reflect panicked
SetFields(dst, r) == Res(IF r.ok THEN [dst EXCEPT !.fs = r.out] ELSE dst, r.h, r.ok)

\* a field copy that assigns the source field as it is: dst.Set(src)
shallowCopyField(sf, df, h) == Res(sf.v, h, TRUE)

\* a field copy that makes the clone's slice or map without asking IsNil first
copyFieldAlwaysMake(sf, df, h) ==
    IF sf.v.k \in {"slice", "map"}
    THEN NewElemCell(sf.v, [out |-> IF sf.v.ref = 0 THEN <<>> ELSE h[sf.v.ref].slots,
                            h |-> h, ok |-> TRUE])
    ELSE Res(sf.v, h, TRUE)

\* a Func case that gives the clone a closure of its own
copyFuncFresh(sf, df, h) ==
    IF sf.v.ref = 0 THEN Res(df.v, h, TRUE)
    ELSE NewElemCell(sf.v, [out |-> h[sf.v.ref].slots, h |-> h, ok |-> TRUE])

\* case reflect.Func: if !srcField.IsNil() { dstField.Set(srcField) }
copyFuncField(sf, df, h) ==
    IF sf.v.ref = 0 THEN Res(df.v, h, TRUE) ELSE Res(sf.v, h, TRUE)

RECURSIVE copyFields(_, _, _)
RECURSIVE copyFieldsFrom(_, _, _, _)
RECURSIVE copyField(_, _, _)
RECURSIVE deepCopyValue(_, _)
RECURSIVE copyElem(_, _)
RECURSIVE copyElemsFrom(_, _, _)
RECURSIVE deepCopyElemsFrom(_, _, _)

\* the body of the element loop of copyFields' Slice and Array cases
copyElem(e, h) ==
    IF e.k = "struct" THEN copyFields(e, Zero(e), h)
    ELSE IF e.k = "ptr" \/ e.k = "iface" THEN deepCopyValue(e, h)
    ELSE Res(e, h, TRUE)

\* the element loop of copyFields' Slice and Array cases
copyElemsFrom(slots, i, acc) ==
    IF i > Len(slots) \/ ~acc.ok THEN acc
    ELSE copyElemsFrom(slots, i + 1, Extend(acc, slots[i], copyElem(slots[i].v, acc.h)))

\* the element loops of deepCopyValue and the entry loop of the Map cases
deepCopyElemsFrom(slots, i, acc) ==
    IF i > Len(slots) \/ ~acc.ok THEN acc
    ELSE deepCopyElemsFrom(slots, i + 1,
                           Extend(acc, slots[i], deepCopyValue(slots[i].v, acc.h)))

deepCopyValue(src, h) ==
    CASE src.k = "ptr" ->
            IF src.ref = 0 THEN Res(Zero(src), h, TRUE)
            ELSE NewPointer(src, copyFields(Pointee(h, src), Zero(Pointee(h, src)), h))
      [] src.k = "iface" ->
            IF src.fs = <<>> THEN Res(Zero(src), h, TRUE)
            ELSE Boxed(src, deepCopyValue(src.fs[1].v, h))
      [] src.k = "struct" -> copyFields(src, Zero(src), h)
      [] src.k = "slice" \/ src.k = "map" ->
            IF src.ref = 0 THEN Res(Zero(src), h, TRUE)
            ELSE NewElemCell(src, deepCopyElemsFrom(h[src.ref].slots, 1, LoopStart(h)))
      [] src.k = "array" -> WithElems(src, deepCopyElemsFrom(src.fs, 1, LoopStart(h)))
      [] OTHER -> Res(src, h, TRUE)

\* one iteration of the field loop of copyFields: the new value of dst's field
copyField(sf, df, h) ==
    IF ~CanSet(df) THEN Res(df.v, h, TRUE)
    ELSE IF isSyncType(sf.v) THEN Res(df.v, h, TRUE)
    ELSE IF sf.v.k = "struct" /\ containsSyncType(sf.v) THEN copyFields(sf.v, df.v, h)
    ELSE CASE sf.v.k = "iface" ->
                 IF sf.v.fs = <<>> THEN Res(df.v, h, TRUE) ELSE deepCopyValue(sf.v, h)
           [] sf.v.k = "struct" -> copyFields(sf.v, df.v, h)
           [] sf.v.k = "ptr" ->
                 IF sf.v.ref = 0 THEN Res(df.v, h, TRUE)
                 ELSE IF isSyncType(Pointee(h, sf.v)) THEN Res(df.v, h, TRUE)
                 ELSE NewPointer(sf.v, copyFields(Pointee(h, sf.v),
                                                  Zero(Pointee(h, sf.v)), h))
           [] sf.v.k = "slice" ->
                 IF sf.v.ref = 0 THEN Res(df.v, h, TRUE)
                 ELSE NewElemCell(sf.v, copyElemsFrom(h[sf.v.ref].slots, 1, LoopStart(h)))
           [] sf.v.k = "map" ->
                 IF sf.v.ref = 0 THEN Res(df.v, h, TRUE)
                 ELSE NewElemCell(sf.v, deepCopyElemsFrom(h[sf.v.ref].slots, 1, LoopStart(h)))
           [] sf.v.k = "array" -> WithElems(df.v, copyElemsFrom(sf.v.fs, 1, LoopStart(h)))
           [] sf.v.k = "chan" -> Res(df.v, h, TRUE)
           [] sf.v.k = "func" -> copyFuncField(sf, df, h)
           [] OTHER -> Res(sf.v, h, TRUE)

copyFieldsFrom(sfs, dfs, i, acc) ==
    IF i > Len(sfs) \/ ~acc.ok THEN acc
    ELSE copyFieldsFrom(sfs, dfs, i + 1,
                        Extend(acc, dfs[i], copyField(sfs[i], dfs[i], acc.h)))

\* src.NumField() panics unless src is a struct
copyFields(src, dst, h) ==
    IF src.k # "struct" THEN Res(dst, h, FALSE)
    ELSE SetFields(dst, copyFieldsFrom(src.fs, dst.fs, 1, LoopStart(h)))

(***************************************************************************)
(* Reading and writing through references                                  *)
(***************************************************************************)
DataKinds == {"ptr", "slice", "map"}

\* the references of the given kinds held inline by a value
RECURSIVE RefsIn(_, _)
RefsIn(v, kinds) ==
    IF v.k \in RefKinds
    THEN IF v.ref # 0 /\ v.k \in kinds THEN {v.ref} ELSE {}
    ELSE UNION {RefsIn(v.fs[i].v, kinds) : i \in DOMAIN v.fs}

CellRefs(h, a, kinds) == UNION {RefsIn(h[a].slots[i].v, kinds) : i \in DOMAIN h[a].slots}

\* the data cells (pointees, slice elements, map entries) reachable from seen
RECURSIVE ReachFrom(_, _)
ReachFrom(h, seen) ==
    LET more == UNION {CellRefs(h, a, DataKinds) : a \in seen} \ seen
    IN  IF more = {} THEN seen ELSE ReachFrom(h, seen \cup more)

Reach(h, p) == IF p.ref = 0 THEN {} ELSE ReachFrom(h, {p.ref})

\* the channels / closures held anywhere in what p reaches
HeldRefs(h, p, kind) == UNION {CellRefs(h, a, {kind}) : a \in Reach(h, p)}

\* paths to the scalars held inline by a value: lock words of sync types when
\* wantSync, ordinary data otherwise
RECURSIVE ScalarPaths(_, _, _)
ScalarPaths(v, inSync, wantSync) ==
    CASE v.k = "int" -> IF inSync = wantSync THEN {<<>>} ELSE {}
      [] v.k \in {"struct", "array"} ->
            UNION {{<<i>> \o q : q \in ScalarPaths(v.fs[i].v, inSync \/ isSyncType(v), wantSync)}
                   : i \in DOMAIN v.fs}
      [] OTHER -> {}

RECURSIVE GetAt(_, _)
GetAt(v, path) == IF path = <<>> THEN v.n ELSE GetAt(v.fs[Head(path)].v, Tail(path))

RECURSIVE SetAt(_, _, _)
SetAt(v, path, n) ==
    IF path = <<>> THEN [v EXCEPT !.n = n]
    ELSE [v EXCEPT !.fs[Head(path)].v = SetAt(@, Tail(path), n)]

\* locations <<cell, slot, path>> of the scalars reachable from p
Locs(h, p, wantSync) ==
    UNION {UNION {{<<a, i, q>> : q \in ScalarPaths(h[a].slots[i].v, FALSE, wantSync)}
                  : i \in DOMAIN h[a].slots}
           : a \in Reach(h, p)}

ReadLoc(h, loc) == GetAt(h[loc[1]].slots[loc[2]].v, loc[3])

WriteLoc(h, loc, n) == [h EXCEPT ![loc[1]].slots[loc[2]].v = SetAt(@, loc[3], n)]

\* every data scalar visible through p
Visible(h, p) == {ReadLoc(h, loc) : loc \in Locs(h, p, FALSE)}

(***************************************************************************)
(* Controller templates (the shapes of controller_clone_test.go and their  *)
(* neighbours).  Each is the heap it lives in; the template struct is the  *)
(* last cell.                                                              *)
(***************************************************************************)
TestData(value, nested) ==
    StructV("TestData", <<Slot("Value", TRUE, IntV(value)),
                          Slot("Nested", TRUE, RefV("ptr", nested))>>)

NestedData(id) == StructV("NestedData", <<Slot("ID", TRUE, IntV(id))>>)

Root(tn, fs) == Cell("obj", <<Elem(StructV(tn, fs))>>)

PointerController ==
    << Cell("obj", <<Elem(NestedData(9))>>),
       Cell("obj", <<Elem(TestData(1, 1))>>),
       Root("PointerController",
            <<Slot("Name", TRUE, IntV(7)),
              Slot("Data", TRUE, RefV("ptr", 2)),
              Slot("Spare", TRUE, RefV("ptr", 0)),
              Slot("Pair", TRUE, ArrayV(<<Elem(RefV("ptr", 1))>>)),
              Slot("hidden", FALSE, IntV(5))>>) >>

SliceController ==
    << Cell("slice", <<Elem(IntV(1)), Elem(IntV(2))>>),
       Cell("obj", <<Elem(TestData(3, 0))>>),
       Cell("slice", <<Elem(RefV("ptr", 2))>>),
       Cell("slice", <<Elem(TestData(4, 0))>>),
       Root("SliceController",
            <<Slot("Numbers", TRUE, RefV("slice", 1)),
              Slot("Pointers", TRUE, RefV("slice", 3)),
              Slot("Structs", TRUE, RefV("slice", 4)),
              Slot("Empty", TRUE, RefV("slice", 0))>>) >>

MapController ==
    << Cell("map", <<Slot("a", TRUE, IntV(1))>>),
       Cell("obj", <<Elem(TestData(2, 0))>>),
       Cell("map", <<Slot("x", TRUE, RefV("ptr", 2))>>),
       Cell("map", <<Slot("s", TRUE, TestData(3, 0))>>),
       Root("MapController",
            <<Slot("SimpleMap", TRUE, RefV("map", 1)),
              Slot("PointerMap", TRUE, RefV("map", 3)),
              Slot("StructMap", TRUE, RefV("map", 4)),
              Slot("Empty", TRUE, RefV("map", 0))>>) >>

InterfaceController ==
    << Cell("obj", <<Elem(TestData(1, 0))>>),
       Cell("slice", <<Elem(IntV(2))>>),
       Root("InterfaceController",
            <<Slot("Data", TRUE, IfaceV(<<Elem(RefV("ptr", 1))>>)),
              Slot("Handler", TRUE, IfaceV(<<Elem(IntV(3))>>)),
              Slot("List", TRUE, IfaceV(<<Elem(RefV("slice", 2))>>)),
              Slot("Spare", TRUE, IfaceV(<<>>))>>) >>

EmbeddedWithMutex ==
    StructV("EmbeddedWithMutex", <<Slot("Value", TRUE, IntV(4)),
                                   Slot("mu", FALSE, MutexV(0))>>)

SyncController ==
    << Cell("obj", <<Elem(MutexV(0))>>),
       Cell("slice", <<Elem(MutexV(0))>>),
       Root("SyncController",
            <<Slot("Name", TRUE, IntV(7)),
              Slot("mu", FALSE, MutexV(0)),
              Slot("Mu", TRUE, MutexV(0)),
              Slot("Embedded", TRUE, EmbeddedWithMutex),
              Slot("Shared", TRUE, RefV("ptr", 1)),
              Slot("Locks", TRUE, RefV("slice", 2))>>) >>

ChannelController ==
    << Cell("chan", <<Elem(IntV(5))>>),
       Cell("chan", <<>>),
       Cell("obj", <<Elem(StructV("Inbox", <<Slot("In", TRUE, RefV("chan", 1))>>))>>),
       Root("ChannelController",
            <<Slot("Name", TRUE, IntV(7)),
              Slot("Ch", TRUE, RefV("chan", 1)),
              Slot("Idle", TRUE, RefV("chan", 2)),
              Slot("Spare", TRUE, RefV("chan", 0)),
              Slot("Box", TRUE, RefV("ptr", 3))>>) >>

FuncController ==
    << Cell("func", <<Slot("callCount", TRUE, IntV(0))>>),
       Root("FuncController",
            <<Slot("Handler", TRUE, RefV("func", 1)),
              Slot("Spare", TRUE, RefV("func", 0)),
              Slot("Age", TRUE, IntV(3))>>) >>

\* a slice whose elements are slices
GridController ==
    << Cell("slice", <<Elem(IntV(1))>>),
       Cell("slice", <<Elem(RefV("slice", 1))>>),
       Root("GridController", <<Slot("Grid", TRUE, RefV("slice", 2))>>) >>

\* a slice whose elements are channels
FanoutController ==
    << Cell("chan", <<>>),
       Cell("slice", <<Elem(RefV("chan", 1))>>),
       Root("FanoutController", <<Slot("Outputs", TRUE, RefV("slice", 2))>>) >>

\* a pointer to a scalar
CounterController ==
    << Cell("obj", <<Elem(IntV(1))>>),
       Root("CounterController",
            <<Slot("Name", TRUE, IntV(7)),
              Slot("Count", TRUE, RefV("ptr", 1))>>) >>

\* a controller registered with every reference field unset
BlankController ==
    << Root("BlankController",
            <<Slot("Name", TRUE, IntV(7)),
              Slot("Data", TRUE, RefV("ptr", 0)),
              Slot("Numbers", TRUE, RefV("slice", 0)),
              Slot("SimpleMap", TRUE, RefV("map", 0)),
              Slot("Payload", TRUE, IfaceV(<<>>))>>) >>

TemplateHeaps ==
    {PointerController, SliceController, MapController, InterfaceController,
     SyncController, ChannelController, FuncController, GridController,
     FanoutController, CounterController, BlankController, <<>>}

\* the template registered for the route: the last cell, or a nil pointer
TemplateOf(h) == RefV("ptr", Len(h))

MaxRequests == 2

MaxOps == 2

MutVal == 42

Requests == 1..MaxRequests

CloneIdle ==
    /\ tmpl = NilPtr
    /\ heap = <<>>
    /\ rpc = [r \in Requests |-> "idle"]
    /\ inst = [r \in Requests |-> NilPtr]
    /\ nops = 0
    /\ invoked = [template |-> 0, clone |-> 0]

CloneInit ==
    /\ heap \in TemplateHeaps
    /\ tmpl = TemplateOf(heap)
    /\ rpc = [r \in Requests |-> "idle"]
    /\ inst = [r \in Requests |-> NilPtr]
    /\ nops = 0
    /\ invoked = [template |-> 0, clone |-> 0]

\* what the requests and the other goroutines have done so far around the clones
OpsDone == nops + invoked.template + invoked.clone

(***************************************************************************)
(* CloneController, one request r at a time inside createControllerHandler *)
(***************************************************************************)
\* the struct a controller pointer points to
RootOf(h, p) == Pointee(h, p)

\* srcValue.IsNil() -> return nil; else dstValue := reflect.New(type).Elem()
\* (requests are numbered in the order they reach CloneController)
CloneBegin(r) ==
    /\ rpc[r] = "idle"
    /\ \A q \in Requests : q < r => rpc[q] # "idle"
    /\ IF tmpl.ref = 0
       THEN /\ inst' = [inst EXCEPT ![r] = NilPtr]
            /\ rpc' = [rpc EXCEPT ![r] = "absent"]
            /\ UNCHANGED heap
       ELSE /\ heap' = AllocCell(heap, Cell("obj", <<Elem(Zero(RootOf(heap, tmpl)))>>))
            /\ inst' = [inst EXCEPT ![r] = RefV("ptr", Len(heap'))]
            /\ rpc' = [rpc EXCEPT ![r] = "cloning"]
    /\ UNCHANGED <<tmpl, nops, invoked>>
    /\ UNCHANGED <<pvars, svars, xvars, yvars>>

\* copyFields(srcValue, dstValue), then return dstValue.Addr(); a reflect
\* panic inside the copy ends the request without an instance
CloneCopy(r) ==
    /\ rpc[r] = "cloning"
    /\ \E res \in {copyFields(RootOf(heap, tmpl), RootOf(heap, inst[r]), heap)} :
           IF res.ok
           THEN /\ heap' = [res.h EXCEPT ![inst[r].ref].slots[1].v = res.v]
                /\ rpc' = [rpc EXCEPT ![r] = "serving"]
           ELSE /\ rpc' = [rpc EXCEPT ![r] = "panicked"]
                /\ UNCHANGED heap
    /\ UNCHANGED <<tmpl, inst, nops, invoked>>
    /\ UNCHANGED <<pvars, svars, xvars, yvars>>

\* the request's own code writes a field of its instance
Mutate(r) ==
    /\ rpc[r] \in {"serving", "mutated"}
    /\ OpsDone < MaxOps
    /\ \E loc \in Locs(heap, inst[r], FALSE) :
          heap' = WriteLoc(heap, loc, MutVal)
    /\ nops' = nops + 1
    /\ rpc' = [rpc EXCEPT ![r] = "mutated"]
    /\ UNCHANGED <<tmpl, inst, invoked>>
    /\ UNCHANGED <<pvars, svars, xvars, yvars>>

\* calling a func value runs the closure it refers to: callCount++
Call(h, f) == [h EXCEPT ![f].slots[1].v.n = @ + 1]

InvokeTemplate ==
    /\ OpsDone < MaxOps
    /\ \E f \in HeldRefs(heap, tmpl, "func") : heap' = Call(heap, f)
    /\ invoked' = [invoked EXCEPT !.template = @ + 1]
    /\ UNCHANGED <<tmpl, rpc, inst, nops>>
    /\ UNCHANGED <<pvars, svars, xvars, yvars>>

InvokeInstance(r) ==
    /\ rpc[r] \in {"serving", "mutated"}
    /\ OpsDone < MaxOps
    /\ \E f \in HeldRefs(heap, inst[r], "func") : heap' = Call(heap, f)
    /\ invoked' = [invoked EXCEPT !.clone = @ + 1]
    /\ UNCHANGED <<tmpl, rpc, inst, nops>>
    /\ UNCHANGED <<pvars, svars, xvars, yvars>>

\* some goroutine takes or releases a lock of the template
LockTemplate ==
    /\ OpsDone < MaxOps
    /\ \E loc \in Locs(heap, tmpl, TRUE) :
          /\ ReadLoc(heap, loc) = 0
          /\ heap' = WriteLoc(heap, loc, 1)
    /\ nops' = nops + 1
    /\ UNCHANGED <<tmpl, rpc, inst, invoked>>
    /\ UNCHANGED <<pvars, svars, xvars, yvars>>

UnlockTemplate ==
    /\ OpsDone < MaxOps
    /\ \E loc \in Locs(heap, tmpl, TRUE) :
          /\ ReadLoc(heap, loc) = 1
          /\ heap' = WriteLoc(heap, loc, 0)
    /\ nops' = nops + 1
    /\ UNCHANGED <<tmpl, rpc, inst, invoked>>
    /\ UNCHANGED <<pvars, svars, xvars, yvars>>

CloneNext ==
    \/ \E r \in Requests : CloneBegin(r)
    \/ \E r \in Requests : CloneCopy(r)
    \/ \E r \in Requests : Mutate(r)
    \/ InvokeTemplate
    \/ \E r \in Requests : InvokeInstance(r)
    \/ LockTemplate
    \/ UnlockTemplate

(***************************************************************************)
(* ControllerWrapper: a standard handler registered as a controller        *)
(***************************************************************************)
\* BaseController[NoBody]{request, logger, rawBody, gcx, Request}: only the
\* parsed Request is exported
BaseControllerV ==
    StructV("BaseController",
            <<Slot("request", FALSE, RefV("ptr", 0)),
              Slot("logger", FALSE, IfaceV(<<>>)),
              Slot("rawBody", FALSE, RefV("slice", 0)),
              Slot("gcx", FALSE, RefV("ptr", 0)),
              Slot("Request", TRUE, StructV("NoBody", <<>>))>>)

\* WrapFunc(f): &ControllerWrapper{handler: f}, f a closure counting its calls
WrapFunc ==
    << Cell("func", <<Slot("callCount", TRUE, IntV(0))>>),
       Root("ControllerWrapper",
            <<Slot("BaseController", TRUE, BaseControllerV),
              Slot("handler", FALSE, RefV("func", 1))>>) >>

\* WrapHandler(h): &ControllerWrapper{handler: h.ServeHTTP}, the method value
\* bound to the handler h
WrapHandler ==
    << Cell("func", <<Slot("callCount", TRUE, IntV(0)),
                      Slot("recv", TRUE, IntV(1))>>),
       Root("ControllerWrapper",
            <<Slot("BaseController", TRUE, BaseControllerV),
              Slot("handler", FALSE, RefV("func", 1))>>) >>

WrapperHeaps == {WrapFunc, WrapHandler, FuncController}

\* the value of the struct field called name
FieldNamed(v, name) == v.fs[CHOOSE i \in DOMAIN v.fs : v.fs[i].name = name].v

IsWrapper(h, p) == p.ref # 0 /\ RootOf(h, p).tn = "ControllerWrapper"

WrapperInit ==
    /\ heap \in WrapperHeaps
    /\ tmpl = TemplateOf(heap)
    /\ rpc = [r \in Requests |-> "idle"]
    /\ inst = [r \in Requests |-> NilPtr]
    /\ nops = 0
    /\ invoked = [template |-> 0, clone |-> 0]

\* ControllerWrapper.Serve on the request's clone: c.handler(w, r); calling
\* a nil func value panics
WrapperServe(r) ==
    /\ rpc[r] \in {"serving", "mutated"}
    /\ IsWrapper(heap, inst[r])
    /\ \E h \in {FieldNamed(RootOf(heap, inst[r]), "handler")} :
          IF h.ref = 0
          THEN /\ rpc' = [rpc EXCEPT ![r] = "nilCall"]
               /\ UNCHANGED <<heap, invoked>>
          ELSE /\ OpsDone < MaxOps
               /\ heap' = Call(heap, h.ref)
               /\ invoked' = [invoked EXCEPT !.clone = @ + 1]
               /\ UNCHANGED rpc
    /\ UNCHANGED <<tmpl, inst, nops>>
    /\ UNCHANGED <<pvars, svars, xvars, yvars>>

WrapperNext ==
    \/ \E r \in Requests : CloneBegin(r)
    \/ \E r \in Requests : CloneCopy(r)
    \/ \E r \in Requests : Mutate(r)
    \/ InvokeTemplate
    \/ \E r \in Requests : InvokeInstance(r)
    \/ \E r \in Requests : WrapperServe(r)

(***************************************************************************)
(* Part III: the response writers on their own                             *)
(***************************************************************************)
MaxCalls == 4

StatusNotFound == 404

Codes == {StatusCreated, StatusNotFound}

Tokens == {"before", "after"}

ErrHandlerTimeout == "http: Handler timeout"

NoError == ""

(***************************************************************************)
(* timeoutResponseWriter                                                   *)
(* Each operation takes the sink t and the wrapped writer w and yields     *)
(* both after the call; Write also yields what it returns.                 *)
(***************************************************************************)
newTimeoutResponseWriter ==
    [isTimeout |-> FALSE, isHeaderWritten |-> FALSE, statusCode |-> StatusOK]

\* Write with the isTimeout test left out
TwWriteUnguarded(t, w, tok) ==
    LET first == ~t.isHeaderWritten
        t1 == IF first
              THEN [t EXCEPT !.isHeaderWritten = TRUE, !.statusCode = StatusOK]
              ELSE t
        w1 == IF first THEN UnderlyingWriteHeader(w, "caller", StatusOK) ELSE w
    IN  [t |-> t1, w |-> UnderlyingWrite(w1, "caller", tok), n |-> 1, err |-> NoError]

TwWrite(t, w, tok) ==
    IF t.isTimeout
    THEN [t |-> t, w |-> w, n |-> 0, err |-> ErrHandlerTimeout]
    ELSE LET first == ~t.isHeaderWritten
             t1 == IF first
                   THEN [t EXCEPT !.isHeaderWritten = TRUE, !.statusCode = StatusOK]
                   ELSE t
             w1 == IF first THEN UnderlyingWriteHeader(w, "caller", StatusOK) ELSE w
         IN  [t |-> t1, w |-> UnderlyingWrite(w1, "caller", tok),
              n |-> 1, err |-> NoError]

\* WriteHeader with the isHeaderWritten test left out
TwWriteHeaderAgain(t, w, code) ==
    IF t.isTimeout
    THEN [t |-> t, w |-> w]
    ELSE [t |-> [t EXCEPT !.isHeaderWritten = TRUE, !.statusCode = code],
          w |-> UnderlyingWriteHeader(w, "caller", code)]

TwWriteHeader(t, w, code) ==
    IF t.isTimeout
    THEN [t |-> t, w |-> w]
    ELSE IF t.isHeaderWritten
    THEN [t |-> t, w |-> w]
    ELSE [t |-> [t EXCEPT !.isHeaderWritten = TRUE, !.statusCode = code],
          w |-> UnderlyingWriteHeader(w, "caller", code)]

\* markTimeout that flips the flag instead of setting it
markTimeoutToggle(t) == [t EXCEPT !.isTimeout = ~@]

markTimeout(t) == [t EXCEPT !.isTimeout = TRUE]

TwFlush(t, w) ==
    IF t.isTimeout
    THEN [t |-> t, w |-> w]
    ELSE [t |-> t, w |-> UnderlyingFlush(w)]

\* one call made on a sink, with what it returned
CallRecord(op, arg, n, err) == [op |-> op, arg |-> arg, n |-> n, err |-> err]

GuardIdle ==
    /\ tw = newTimeoutResponseWriter
    /\ twOrig = NewWire
    /\ twHist = <<>>
    /\ twAtTimeout = [taken |-> FALSE, t |-> newTimeoutResponseWriter, w |-> NewWire]

GuardWrite(tok) ==
    /\ Len(twHist) < MaxCalls
    /\ \E res \in {TwWrite(tw, twOrig, tok)} :
          /\ tw' = res.t
          /\ twOrig' = res.w
          /\ twHist' = Append(twHist, CallRecord("Write", tok, res.n, res.err))
    /\ UNCHANGED <<twAtTimeout, ds, dsOrig, dsStart, dsHist>>
    /\ UNCHANGED <<pvars, cvars, xvars, yvars>>

GuardWriteHeader(code) ==
    /\ Len(twHist) < MaxCalls
    /\ \E res \in {TwWriteHeader(tw, twOrig, code)} :
          /\ tw' = res.t
          /\ twOrig' = res.w
    /\ twHist' = Append(twHist, CallRecord("WriteHeader", code, 0, NoError))
    /\ UNCHANGED <<twAtTimeout, ds, dsOrig, dsStart, dsHist>>
    /\ UNCHANGED <<pvars, cvars, xvars, yvars>>

GuardFlush ==
    /\ Len(twHist) < MaxCalls
    /\ \E res \in {TwFlush(tw, twOrig)} :
          /\ tw' = res.t
          /\ twOrig' = res.w
    /\ twHist' = Append(twHist, CallRecord("Flush", "", 0, NoError))
    /\ UNCHANGED <<twAtTimeout, ds, dsOrig, dsStart, dsHist>>
    /\ UNCHANGED <<pvars, cvars, xvars, yvars>>

GuardMarkTimeout ==
    /\ Len(twHist) < MaxCalls
    /\ tw' = markTimeout(tw)
    /\ twHist' = Append(twHist, CallRecord("markTimeout", "", 0, NoError))
    /\ twAtTimeout' = IF twAtTimeout.taken THEN twAtTimeout
                      ELSE [taken |-> TRUE, t |-> tw, w |-> twOrig]
    /\ UNCHANGED <<twOrig, ds, dsOrig, dsStart, dsHist>>
    /\ UNCHANGED <<pvars, cvars, xvars, yvars>>

GuardNext ==
    \/ \E tok \in Tokens : GuardWrite(tok)
    \/ \E code \in Codes : GuardWriteHeader(code)
    \/ GuardFlush
    \/ GuardMarkTimeout

(***************************************************************************)
(* deferredResponseWriter driven by a caller                               *)
(***************************************************************************)
\* the wrapped writer may arrive with a header an earlier stage has set
StartWires ==
    {NewWire,
     [NewWire EXCEPT !.header =
          HeaderSet(@, "Content-Type", "application/json; charset=utf-8")]}

DeferIdle ==
    /\ ds = newDeferredResponseWriter
    /\ dsOrig = NewWire
    /\ dsStart = NewWire
    /\ dsHist = <<>>

DeferInit ==
    /\ ds = newDeferredResponseWriter
    /\ dsStart \in StartWires
    /\ dsOrig = dsStart
    /\ dsHist = <<>>

DeferWrite(tok) ==
    /\ Len(dsHist) < MaxCalls
    /\ \E res \in {DwWrite(ds, dsOrig, "caller", tok)} :
          /\ ds' = res.d
          /\ dsOrig' = res.w
    /\ dsHist' = Append(dsHist, CallRecord("Write", tok, 1, NoError))
    /\ UNCHANGED <<dsStart, tw, twOrig, twHist, twAtTimeout>>
    /\ UNCHANGED <<pvars, cvars, xvars, yvars>>

DeferWriteHeader(code) ==
    /\ Len(dsHist) < MaxCalls
    /\ \E res \in {DwWriteHeader(ds, dsOrig, code)} :
          /\ ds' = res.d
          /\ dsOrig' = res.w
    /\ dsHist' = Append(dsHist, CallRecord("WriteHeader", code, 0, NoError))
    /\ UNCHANGED <<dsStart, tw, twOrig, twHist, twAtTimeout>>
    /\ UNCHANGED <<pvars, cvars, xvars, yvars>>

DeferHeaderSet(k, v) ==
    /\ Len(dsHist) < MaxCalls
    /\ \E res \in {DwHeaderSet(ds, dsOrig, k, v)} :
          /\ ds' = res.d
          /\ dsOrig' = res.w
    /\ dsHist' = Append(dsHist, CallRecord("Header.Set", <<k, v>>, 0, NoError))
    /\ UNCHANGED <<dsStart, tw, twOrig, twHist, twAtTimeout>>
    /\ UNCHANGED <<pvars, cvars, xvars, yvars>>

DeferFlush ==
    /\ Len(dsHist) < MaxCalls
    /\ \E res \in {DwFlush(ds, dsOrig)} :
          /\ ds' = res.d
          /\ dsOrig' = res.w
    /\ dsHist' = Append(dsHist, CallRecord("Flush", "", 0, NoError))
    /\ UNCHANGED <<dsStart, tw, twOrig, twHist, twAtTimeout>>
    /\ UNCHANGED <<pvars, cvars, xvars, yvars>>

DeferCommit ==
    /\ Len(dsHist) < MaxCalls
    /\ \E res \in {DwCommit(ds, dsOrig)} :
          /\ ds' = res.d
          /\ dsOrig' = res.w
    /\ dsHist' = Append(dsHist, CallRecord("Commit", "", 0, NoError))
    /\ UNCHANGED <<dsStart, tw, twOrig, twHist, twAtTimeout>>
    /\ UNCHANGED <<pvars, cvars, xvars, yvars>>

DeferReset ==
    /\ Len(dsHist) < MaxCalls
    /\ ds' = DwReset(ds)
    /\ dsHist' = Append(dsHist, CallRecord("Reset", "", 0, NoError))
    /\ UNCHANGED <<dsOrig, dsStart, tw, twOrig, twHist, twAtTimeout>>
    /\ UNCHANGED <<pvars, cvars, xvars, yvars>>

DeferNext ==
    \/ \E tok \in Tokens : DeferWrite(tok)
    \/ \E code \in Codes : DeferWriteHeader(code)
    \/ \E v \in {"value", "other"} : DeferHeaderSet("X-Custom", v)
    \/ DeferFlush
    \/ DeferCommit
    \/ DeferReset

SinksIdle == GuardIdle /\ DeferIdle

(***************************************************************************)
(* Part IV: MiddlewareQueue                                                *)
(*                                                                         *)
(* A MiddlewareQueue is a Go slice: a header [arr, len] over an array of   *)
(* backing whose length is the slice's capacity.  arr = 0 is a list that   *)
(* does not exist yet.  Two arrays are enough for the two lists: a list    *)
(* that must move takes the array the other list does not use.             *)
(***************************************************************************)
MaxStages == 4

Stages == {"m1", "m2", "auth"}

Unset == "-"

NoQueue == [arr |-> 0, len |-> 0]

\* capacities the allocator hands out for slices of 8-byte elements
SizeClassCaps == {0, 1, 2, 3, 4, 6, 8, 10, 12, 14, 16}

RoundUpCap(n) ==
    CHOOSE c \in SizeClassCaps :
        c >= n /\ \A d \in SizeClassCaps : d >= n => c <= d

\* append's growth: double the capacity, or take what is needed if more
GrowCap(cap, need) == RoundUpCap(IF need > 2 * cap THEN need ELSE 2 * cap)

Elems(b, q) == IF q.arr = 0 THEN <<>> ELSE SubSeq(b[q.arr], 1, q.len)

Pad(elems, cap) == elems \o [i \in 1..(cap - Len(elems)) |-> Unset]

\* *mq = append(*mq, m)
Use(b, q, other, m) ==
    IF q.len < Len(b[q.arr])
    THEN [b |-> [b EXCEPT ![q.arr][q.len + 1] = m],
          q |-> [q EXCEPT !.len = @ + 1]]
    ELSE LET na == IF other.arr = q.arr THEN 3 - q.arr ELSE q.arr
         IN  [b |-> [b EXCEPT ![na] = Pad(Append(Elems(b, q), m),
                                          GrowCap(Len(b[q.arr]), q.len + 1))],
              q |-> [arr |-> na, len |-> q.len + 1]]

\* a Clone that hands back the list itself: same array, same length
CloneAlias(b, q) == [b |-> b, q |-> q]

\* slices.Clone(mq): a new array holding the elements
Clone(b, q) ==
    [b |-> [b EXCEPT ![3 - q.arr] = Pad(Elems(b, q), RoundUpCap(q.len))],
     q |-> [arr |-> 3 - q.arr, len |-> q.len]]

\* A handler is the chain of stages wrapped around the final handler, the
\* outermost first; mq[i](handler) puts stage mq[i] around handler.
FinalHandler == <<"handler">>

Wrap(m, handler) == <<m>> \o handler

\* an Apply that wraps from the first stage to the last
ApplyForward(mq, handler) ==
    [i \in 1..Len(mq) |-> mq[Len(mq) + 1 - i]] \o handler

RECURSIVE ApplyFrom(_, _, _)
ApplyFrom(mq, i, handler) ==
    IF i < 1 THEN handler ELSE ApplyFrom(mq, i - 1, Wrap(mq[i], handler))

\* for i := len(mq) - 1; i >= 0; i-- { handler = mq[i](handler) }
Apply(mq, handler) == ApplyFrom(mq, Len(mq), handler)

Event(stage, what) == [stage |-> stage, what |-> what]

\* Running a handler: m1 and m2 record, call next and record again; auth
\* calls next only for an authorized request; the final handler records.
RECURSIVE ServeHTTP(_, _)
ServeHTTP(handler, authorized) ==
    IF Head(handler) = "handler" THEN <<Event("handler", "run")>>
    ELSE IF Head(handler) = "auth" /\ ~authorized
    THEN <<Event("auth", "deny")>>
    ELSE <<Event(Head(handler), "before")>>
         \o ServeHTTP(Tail(handler), authorized)
         \o <<Event(Head(handler), "after")>>

QueueIdle ==
    /\ backing = [a \in {1, 2} |-> <<>>]
    /\ smq = [arr |-> 1, len |-> 0]
    /\ gmq = NoQueue
    /\ order = <<>>
    /\ served = [list |-> <<>>, authorized |-> TRUE]

\* s.mq.Use(m), while the server is being set up
QueueUse(m) ==
    /\ order = <<>>
    /\ smq.len < MaxStages
    /\ \E res \in {Use(backing, smq, gmq, m)} :
          /\ backing' = res.b
          /\ smq' = res.q
    /\ UNCHANGED <<gmq, order, served>>
    /\ UNCHANGED <<gcx, gcxHist, methodHandlers, muxPatterns, regHist>>
    /\ UNCHANGED <<pvars, cvars, svars, yvars>>

\* mq := s.mq.Clone()
QueueClone ==
    /\ order = <<>>
    /\ gmq = NoQueue
    /\ \E res \in {Clone(backing, smq)} :
          /\ backing' = res.b
          /\ gmq' = res.q
    /\ UNCHANGED <<smq, order, served>>
    /\ UNCHANGED <<gcx, gcxHist, methodHandlers, muxPatterns, regHist>>
    /\ UNCHANGED <<pvars, cvars, svars, yvars>>

\* mq.Use(m) on the clone
CloneUse(m) ==
    /\ order = <<>>
    /\ gmq # NoQueue
    /\ gmq.len < MaxStages
    /\ \E res \in {Use(backing, gmq, smq, m)} :
          /\ backing' = res.b
          /\ gmq' = res.q
    /\ UNCHANGED <<smq, order, served>>
    /\ UNCHANGED <<gcx, gcxHist, methodHandlers, muxPatterns, regHist>>
    /\ UNCHANGED <<pvars, cvars, svars, yvars>>

\* wrapped := mq.Apply(handler); wrapped.ServeHTTP(rec, req)
QueueServe(q, authorized) ==
    /\ order = <<>>
    /\ q # NoQueue
    /\ order' = ServeHTTP(Apply(Elems(backing, q), FinalHandler), authorized)
    /\ served' = [list |-> Elems(backing, q), authorized |-> authorized]
    /\ UNCHANGED <<backing, smq, gmq>>
    /\ UNCHANGED <<gcx, gcxHist, methodHandlers, muxPatterns, regHist>>
    /\ UNCHANGED <<pvars, cvars, svars, yvars>>

QueueNext ==
    \/ \E m \in Stages : QueueUse(m)
    \/ QueueClone
    \/ \E m \in Stages : CloneUse(m)
    \/ \E q \in {smq, gmq}, authorized \in BOOLEAN : QueueServe(q, authorized)

(***************************************************************************)
(* Part IV: the error slot of the request context                          *)
(*                                                                         *)
(* gcx is a context.Context: has tells whether it carries a *Context, data *)
(* is the *Context's map.  A map value carries its dynamic type.           *)
(***************************************************************************)
AppErrorKey == "__app_error__"

DataKeys == {AppErrorKey, "user"}

ErrInternal(msg) == [Code |-> StatusInternalServerError, Message |-> msg]

Absent == [type |-> "absent", err |-> NilError, str |-> ""]

AppErrorV(err) == [type |-> "*AppError", err |-> err, str |-> ""]

StringV(str) == [type |-> "string", err |-> NilError, str |-> str]

\* context.Background()
PlainContext == [has |-> FALSE, data |-> [k \in DataKeys |-> Absent]]

WithContext(ctx) ==
    IF ~ctx.has THEN [has |-> TRUE, data |-> [k \in DataKeys |-> Absent]]
    ELSE ctx

SetContextData(ctx, key, data) ==
    IF ctx.has THEN [ctx EXCEPT !.data[key] = data] ELSE ctx

\* a SetError that keeps an error that is already recorded
SetErrorKeepFirst(ctx, err) ==
    IF ctx.has /\ ctx.data[AppErrorKey].type = "absent"
    THEN [ctx EXCEPT !.data[AppErrorKey] = AppErrorV(err)]
    ELSE ctx

SetErrorIn(ctx, err) ==
    IF ctx.has THEN [ctx EXCEPT !.data[AppErrorKey] = AppErrorV(err)] ELSE ctx

\* v.(*AppError): the one-value form panics on a value of another type
AssertAppError(v) ==
    IF v.type = "*AppError" THEN [panicked |-> FALSE, err |-> v.err]
    ELSE [panicked |-> TRUE, err |-> NilError]

GetErrorFrom(ctx) ==
    IF ctx.has /\ ctx.data[AppErrorKey].type # "absent"
    THEN AssertAppError(ctx.data[AppErrorKey])
    ELSE [panicked |-> FALSE, err |-> NilError]

\* return GetError(ctx) != nil
HasErrorIn(ctx) ==
    [panicked |-> GetErrorFrom(ctx).panicked,
     has |-> ~GetErrorFrom(ctx).panicked /\ GetErrorFrom(ctx).err # NilError]

ClearErrorIn(ctx) ==
    IF ctx.has THEN [ctx EXCEPT !.data[AppErrorKey] = Absent] ELSE ctx

SlotErrors == {ErrBadRequest("test error"), ErrInternal("test"), NilError}

SlotCall(op, key, val, panicked, err, has) ==
    [op |-> op, key |-> key, val |-> val,
     out |-> [panicked |-> panicked, err |-> err, has |-> has]]

SlotIdle == gcx = PlainContext /\ gcxHist = <<>>

SlotInit ==
    /\ gcx \in {PlainContext, WithContext(PlainContext)}
    /\ gcxHist = <<>>

SlotFrame ==
    /\ UNCHANGED <<backing, smq, gmq, order, served>>
    /\ UNCHANGED <<methodHandlers, muxPatterns, regHist>>
    /\ UNCHANGED <<pvars, cvars, svars, yvars>>

SlotSetError(err) ==
    /\ Len(gcxHist) < MaxCalls
    /\ gcx' = SetErrorIn(gcx, err)
    /\ gcxHist' = Append(gcxHist, SlotCall("SetError", AppErrorKey,
                                           AppErrorV(err), FALSE, NilError, FALSE))
    /\ SlotFrame

SlotClearError ==
    /\ Len(gcxHist) < MaxCalls
    /\ gcx' = ClearErrorIn(gcx)
    /\ gcxHist' = Append(gcxHist, SlotCall("ClearError", AppErrorKey,
                                           Absent, FALSE, NilError, FALSE))
    /\ SlotFrame

SlotSetContextData(key, data) ==
    /\ Len(gcxHist) < MaxCalls
    /\ gcx' = SetContextData(gcx, key, data)
    /\ gcxHist' = Append(gcxHist, SlotCall("SetContextData", key,
                                           data, FALSE, NilError, FALSE))
    /\ SlotFrame

SlotGetError ==
    /\ Len(gcxHist) < MaxCalls
    /\ \E res \in {GetErrorFrom(gcx)} :
          gcxHist' = Append(gcxHist, SlotCall("GetError", AppErrorKey, Absent,
                                              res.panicked, res.err, FALSE))
    /\ UNCHANGED gcx
    /\ SlotFrame

SlotHasError ==
    /\ Len(gcxHist) < MaxCalls
    /\ \E res \in {HasErrorIn(gcx)} :
          gcxHist' = Append(gcxHist, SlotCall("HasError", AppErrorKey, Absent,
                                              res.panicked, NilError, res.has))
    /\ UNCHANGED gcx
    /\ SlotFrame

SlotNext ==
    \/ \E err \in SlotErrors : SlotSetError(err)
    \/ SlotClearError
    \/ \E key \in DataKeys : SlotSetContextData(key, StringV("not an AppError"))
    \/ SlotGetError
    \/ SlotHasError

(***************************************************************************)
(* Part IV: route registration                                             *)
(*                                                                         *)
(* methodHandlers maps a path to the map from method to handler; a handler *)
(* is named by the controller it was created for.  muxPatterns lists the   *)
(* patterns handed to the mux, in order.                                   *)
(***************************************************************************)
MaxRegistrations == 3

Methods == {"GET", "POST"}

Paths == {"/home", "/user"}

Controllers == {"c1", "c2"}

EmptyMap == [k \in {} |-> ""]

MapPut(m, k, v) == [x \in DOMAIN m \cup {k} |-> IF x = k THEN v ELSE m[x]]

\* registerHandlerWithMiddlewares: the map of the path is made, and the
\* dispatcher handed to the mux, on the path's first registration only; the
\* handler is then stored under the method
registerHandlerWithMiddlewares(mh, mux, method, path, controller) ==
    IF path \in DOMAIN mh
    THEN [mh |-> MapPut(mh, path, MapPut(mh[path], method, controller)),
          mux |-> mux,
          rejected |-> FALSE]
    ELSE [mh |-> MapPut(mh, path, MapPut(EmptyMap, method, controller)),
          mux |-> Append(mux, path),
          rejected |-> FALSE]

\* the dispatcher registered with the mux
Dispatch(mh, mux, method, path) ==
    IF \A i \in 1..Len(mux) : mux[i] # path THEN "404 Not Found"
    ELSE IF method \in DOMAIN mh[path] THEN mh[path][method]
    ELSE "405 Method Not Allowed"

RouteCall(op, method, path, controller, rejected) ==
    [op |-> op, method |-> method, path |-> path,
     controller |-> controller, rejected |-> rejected]

RoutesIdle ==
    /\ methodHandlers = EmptyMap
    /\ muxPatterns = <<>>
    /\ regHist = <<>>

RoutesFrame ==
    /\ UNCHANGED <<backing, smq, gmq, order, served, gcx, gcxHist>>
    /\ UNCHANGED <<pvars, cvars, svars, yvars>>

RoutesRegister(method, path, controller) ==
    /\ Len(regHist) < MaxRegistrations
    /\ \E res \in {registerHandlerWithMiddlewares(methodHandlers, muxPatterns,
                                                  method, path, controller)} :
          /\ methodHandlers' = res.mh
          /\ muxPatterns' = res.mux
          /\ regHist' = Append(regHist, RouteCall("register", method, path,
                                                  controller, res.rejected))
    /\ RoutesFrame

RoutesServe(method, path) ==
    /\ Len(regHist) < MaxRegistrations
    /\ regHist' = Append(regHist,
                         RouteCall("serve", method, path,
                                   Dispatch(methodHandlers, muxPatterns,
                                            method, path), FALSE))
    /\ UNCHANGED <<methodHandlers, muxPatterns>>
    /\ RoutesFrame

RoutesNext ==
    \/ \E method \in Methods, path \in Paths, controller \in Controllers :
          RoutesRegister(method, path, controller)
    \/ \E method \in Methods, path \in Paths : RoutesServe(method, path)

(***************************************************************************)
(* Part V: the timeouts of the configuration                               *)
(***************************************************************************)
DefaultWriteTimeout == 1000

DefaultSSETimeout == 300000

EventStream == "text/event-stream"

\* env.WriteTimeout()
WriteTimeout(e) ==
    IF e.WriteTimeout = 0 THEN DefaultWriteTimeout ELSE e.WriteTimeout

\* env.SSETimeout()
SSETimeout(e) == IF e.Timeout = 0 THEN DefaultSSETimeout ELSE e.Timeout

\* the deadline TimeoutMiddleware takes for a request:
\* timeout := env.WriteTimeout()
RequestTimeout(e, acceptHeader) == WriteTimeout(e)

ConfiguredTimeouts == {0 - 1, 0, 1}

StreamIdle == env = [WriteTimeout |-> 0, Timeout |-> 0] /\ accept = ""

StreamInit ==
    /\ env \in [WriteTimeout : ConfiguredTimeouts, Timeout : ConfiguredTimeouts]
    /\ accept \in {"", EventStream}
    /\ timeout = RequestTimeout(env, accept)
    /\ script \in Scripts
    /\ PipelineIdle

(***************************************************************************)
(* Part V: RateLimiter.GetLimiter                                          *)
(*                                                                         *)
(* mu is a sync.RWMutex: readers holds the goroutines inside RLock,        *)
(* pending the writer that has announced itself and waits for the readers  *)
(* to leave, writer the goroutine inside Lock.  A reader is not admitted   *)
(* while a writer holds the lock or is pending.  Each goroutine runs one   *)
(* statement per step; a goroutine whose statement is a lock call that     *)
(* cannot be granted does not step.                                        *)
(***************************************************************************)
MaxCallers == 3

MaxLookups == 4

Callers == 1..MaxCallers

LimiterKeys == {"user-1", "user-2"}

NoLimiter == 0

FreeMutex == [readers |-> {}, pending |-> 0, writer |-> 0]

\* NewRateLimiter(rat, burst, WithTTL(...)): an empty map
NewRateLimiter(ttl) ==
    [mu |-> FreeMutex,
     limiters |-> [k \in LimiterKeys |-> NoLimiter],
     ttl |-> ttl,
     made |-> 0,
     started |-> 0,
     returned |-> <<>>]

IdleCall == [pc |-> "idle", key |-> "", limiter |-> NoLimiter, exists |-> FALSE]

CanRLock(mu) == mu.writer = 0 /\ mu.pending = 0

RLock(mu, g) == [mu EXCEPT !.readers = @ \cup {g}]

RUnlock(mu, g) == [mu EXCEPT !.readers = @ \ {g}]

\* Lock, first half: take the writers' mutex and announce the writer
CanAnnounce(mu) == mu.writer = 0 /\ mu.pending = 0

Announce(mu, g) == [mu EXCEPT !.pending = g]

\* Lock, second half: wait until every reader has left
CanLock(mu) == mu.readers = {}

Lock(mu, g) == [mu EXCEPT !.pending = 0, !.writer = g]

Unlock(mu) == [mu EXCEPT !.writer = 0]

\* the goroutines of the removal closures are numbered after the callers
SleeperId(i) == MaxCallers + i

Threads == Callers \cup {SleeperId(i) : i \in 1..Len(sleepers)}

PcOf(th) == IF th \in Callers THEN calls[th].pc ELSE sleepers[th - MaxCallers].pc

\* the statement a goroutine is at can run
CanStep(th) ==
    CASE PcOf(th) = "RLock" -> CanRLock(rl.mu)
      [] PcOf(th) = "Lock" -> CanAnnounce(rl.mu)
      [] PcOf(th) = "LockWait" -> CanLock(rl.mu)
      [] PcOf(th) \in {"idle", "done"} -> FALSE
      [] OTHER -> TRUE

\* the second lookup, under the write lock: create and store the limiter of
\* a key that has none, and start the goroutine that removes it after ttl
Recheck(r, c) ==
    IF r.limiters[c.key] # NoLimiter
    THEN [rl |-> r,
          call |-> [c EXCEPT !.limiter = r.limiters[c.key], !.exists = TRUE,
                             !.pc = "Unlock"],
          spawn |-> <<>>]
    ELSE [rl |-> [r EXCEPT !.limiters[c.key] = r.made + 1, !.made = @ + 1],
          call |-> [c EXCEPT !.limiter = r.made + 1, !.pc = "Unlock"],
          spawn |-> IF r.ttl THEN <<[key |-> c.key, pc |-> "Sleep"]>> ELSE <<>>]

\* one statement of GetLimiter on goroutine g
GetLimiterStep(r, c, g) ==
    CASE c.pc = "RLock" ->
            [rl |-> [r EXCEPT !.mu = RLock(r.mu, g)],
             call |-> [c EXCEPT !.pc = "lookup"], spawn |-> <<>>]
      [] c.pc = "lookup" ->
            [rl |-> r,
             call |-> [c EXCEPT !.limiter = r.limiters[c.key],
                                !.exists = r.limiters[c.key] # NoLimiter,
                                !.pc = IF r.limiters[c.key] # NoLimiter
                                       THEN "return" ELSE "Lock"],
             spawn |-> <<>>]
      [] c.pc = "Lock" ->
            [rl |-> [r EXCEPT !.mu = Announce(r.mu, g)],
             call |-> [c EXCEPT !.pc = "LockWait"], spawn |-> <<>>]
      [] c.pc = "LockWait" ->
            [rl |-> [r EXCEPT !.mu = Lock(r.mu, g)],
             call |-> [c EXCEPT !.pc = "recheck"], spawn |-> <<>>]
      [] c.pc = "recheck" -> Recheck(r, c)
      [] c.pc = "Unlock" ->
            [rl |-> [r EXCEPT !.mu = Unlock(r.mu)],
             call |-> [c EXCEPT !.pc = "return"], spawn |-> <<>>]
      [] c.pc = "return" ->
            [rl |-> [r EXCEPT !.mu = RUnlock(r.mu, g),
                              !.returned = Append(@, [g |-> g, key |-> c.key,
                                                      limiter |-> c.limiter])],
             call |-> IdleCall, spawn |-> <<>>]

\* one statement of the closure that removes key k after the TTL
SleeperStep(r, t, th) ==
    CASE t.pc = "Sleep" -> [rl |-> r, sleeper |-> [t EXCEPT !.pc = "Lock"]]
      [] t.pc = "Lock" ->
            [rl |-> [r EXCEPT !.mu = Announce(r.mu, th)],
             sleeper |-> [t EXCEPT !.pc = "LockWait"]]
      [] t.pc = "LockWait" ->
            [rl |-> [r EXCEPT !.mu = Lock(r.mu, th)],
             sleeper |-> [t EXCEPT !.pc = "delete"]]
      [] t.pc = "delete" ->
            [rl |-> [r EXCEPT !.limiters[t.key] = NoLimiter],
             sleeper |-> [t EXCEPT !.pc = "Unlock"]]
      [] t.pc = "Unlock" ->
            [rl |-> [r EXCEPT !.mu = Unlock(r.mu)],
             sleeper |-> [t EXCEPT !.pc = "done"]]

LimiterIdle ==
    /\ rl = NewRateLimiter(FALSE)
    /\ calls = [g \in Callers |-> IdleCall]
    /\ sleepers = <<>>

LimiterInit ==
    /\ rl \in {NewRateLimiter(ttl) : ttl \in BOOLEAN}
    /\ calls = [g \in Callers |-> IdleCall]
    /\ sleepers = <<>>

LimiterFrame ==
    /\ UNCHANGED <<env, accept, sinkMu, hcall, tpc, routes, life>>
    /\ UNCHANGED <<pvars, cvars, svars, xvars>>

\* a goroutine calls rl.GetLimiter(key)
LimiterCall(g, key) ==
    /\ calls[g].pc = "idle"
    /\ rl.started < MaxLookups
    /\ calls' = [calls EXCEPT ![g] = [IdleCall EXCEPT !.pc = "RLock", !.key = key]]
    /\ rl' = [rl EXCEPT !.started = @ + 1]
    /\ UNCHANGED sleepers
    /\ LimiterFrame

\* a goroutine runs its next statement
LimiterStep(th) ==
    /\ th \in Threads
    /\ CanStep(th)
    /\ IF th \in Callers
       THEN \E res \in {GetLimiterStep(rl, calls[th], th)} :
               /\ rl' = res.rl
               /\ calls' = [calls EXCEPT ![th] = res.call]
               /\ sleepers' = sleepers \o res.spawn
       ELSE \E res \in {SleeperStep(rl, sleepers[th - MaxCallers], th)} :
               /\ rl' = res.rl
               /\ sleepers' = [sleepers EXCEPT ![th - MaxCallers] = res.sleeper]
               /\ UNCHANGED calls
    /\ LimiterFrame

LimiterNext ==
    \/ \E g \in Callers, key \in LimiterKeys : LimiterCall(g, key)
    \/ \E th \in Threads : LimiterStep(th)

(***************************************************************************)
(* Part V: the handler goroutine and the deadline goroutine on one         *)
(* timeoutResponseWriter, one statement per step.  tw and twOrig are the   *)
(* sink and the writer it wraps.                                           *)
(***************************************************************************)
\* a mutex that admits every caller
CanTwLockAlways(mu) == TRUE

\* tw.mu.Lock() returns only when no goroutine holds the mutex
CanTwLock(mu) == mu = "free"

\* Write after the isTimeout test: the implicit header
WriteHeaderPart(t, w) ==
    IF ~t.isHeaderWritten
    THEN [t |-> [t EXCEPT !.isHeaderWritten = TRUE, !.statusCode = StatusOK],
          w |-> UnderlyingWriteHeader(w, "caller", StatusOK)]
    ELSE [t |-> t, w |-> w]

\* WriteHeader after the isTimeout test
WriteHeaderBody(t, w, code) ==
    IF t.isHeaderWritten
    THEN [t |-> t, w |-> w]
    ELSE [t |-> [t EXCEPT !.isHeaderWritten = TRUE, !.statusCode = code],
          w |-> UnderlyingWriteHeader(w, "caller", code)]

\* Flush after the isTimeout test
FlushBody(t, w) == [t |-> t, w |-> UnderlyingFlush(w)]

IdleSinkCall ==
    [pc |-> "idle", op |-> "", tok |-> "", code |-> 0, timedOut |-> FALSE, n |-> 0]

RaceIdle ==
    /\ sinkMu = "free"
    /\ hcall = IdleSinkCall
    /\ tpc = "idle"

RaceInit ==
    /\ sinkMu = "free"
    /\ hcall = IdleSinkCall
    /\ tpc = "Lock"
    /\ GuardIdle

RaceFrame ==
    /\ UNCHANGED <<twHist, twAtTimeout, ds, dsOrig, dsStart, dsHist>>
    /\ UNCHANGED <<env, accept, rl, calls, sleepers, routes, life>>
    /\ UNCHANGED <<pvars, cvars, xvars>>

\* the handler calls tw.Write, tw.WriteHeader or tw.Flush
RaceCall(op, tok, code) ==
    /\ hcall.pc = "idle"
    /\ hcall.n < MaxCalls
    /\ hcall' = [hcall EXCEPT !.pc = "Lock", !.op = op, !.tok = tok,
                              !.code = code, !.timedOut = FALSE]
    /\ UNCHANGED <<tw, twOrig, sinkMu, tpc>>
    /\ RaceFrame

\* tw.mu.Lock() in the handler's call
RaceLock ==
    /\ hcall.pc = "Lock"
    /\ CanTwLock(sinkMu)
    /\ sinkMu' = "handler"
    /\ hcall' = [hcall EXCEPT !.pc = "test"]
    /\ UNCHANGED <<tw, twOrig, tpc>>
    /\ RaceFrame

\* if tw.isTimeout { return ... }
RaceTest ==
    /\ hcall.pc = "test"
    /\ hcall' = [hcall EXCEPT !.timedOut = tw.isTimeout,
                              !.pc = IF tw.isTimeout THEN "Unlock" ELSE "act"]
    /\ UNCHANGED <<tw, twOrig, sinkMu, tpc>>
    /\ RaceFrame

\* the statements after the test, up to the call's last use of the writer
RaceAct ==
    /\ hcall.pc = "act"
    /\ \E res \in {CASE hcall.op = "Write" -> WriteHeaderPart(tw, twOrig)
                     [] hcall.op = "WriteHeader" ->
                           WriteHeaderBody(tw, twOrig, hcall.code)
                     [] hcall.op = "Flush" -> FlushBody(tw, twOrig)} :
          /\ tw' = res.t
          /\ twOrig' = res.w
    /\ hcall' = [hcall EXCEPT !.pc = IF hcall.op = "Write" THEN "write"
                                     ELSE "Unlock"]
    /\ UNCHANGED <<sinkMu, tpc>>
    /\ RaceFrame

\* return tw.ResponseWriter.Write(b)
RaceWrite ==
    /\ hcall.pc = "write"
    /\ twOrig' = UnderlyingWrite(twOrig, "caller", hcall.tok)
    /\ hcall' = [hcall EXCEPT !.pc = "Unlock"]
    /\ UNCHANGED <<tw, sinkMu, tpc>>
    /\ RaceFrame

\* the deferred tw.mu.Unlock() of the handler's call
RaceUnlock ==
    /\ hcall.pc = "Unlock"
    /\ sinkMu' = "free"
    /\ hcall' = [hcall EXCEPT !.pc = "idle", !.n = @ + 1]
    /\ UNCHANGED <<tw, twOrig, tpc>>
    /\ RaceFrame

\* markTimeout on the deadline goroutine: tw.mu.Lock()
DeadlineLock ==
    /\ tpc = "Lock"
    /\ CanTwLock(sinkMu)
    /\ sinkMu' = "deadline"
    /\ tpc' = "set"
    /\ UNCHANGED <<tw, twOrig, hcall>>
    /\ RaceFrame

\* tw.isTimeout = true
DeadlineSet ==
    /\ tpc = "set"
    /\ tw' = markTimeout(tw)
    /\ tpc' = "Unlock"
    /\ UNCHANGED <<twOrig, sinkMu, hcall>>
    /\ RaceFrame

\* the deferred tw.mu.Unlock(); markTimeout returns
DeadlineUnlock ==
    /\ tpc = "Unlock"
    /\ sinkMu' = "free"
    /\ tpc' = "done"
    /\ UNCHANGED <<tw, twOrig, hcall>>
    /\ RaceFrame

RaceNext ==
    \/ \E tok \in Tokens : RaceCall("Write", tok, 0)
    \/ \E code \in Codes : RaceCall("WriteHeader", "", code)
    \/ RaceCall("Flush", "", 0)
    \/ RaceLock
    \/ RaceTest
    \/ RaceAct
    \/ RaceWrite
    \/ RaceUnlock
    \/ DeadlineLock
    \/ DeadlineSet
    \/ DeadlineUnlock

(***************************************************************************)
(* Part V: the handler of a route                                          *)
(*                                                                         *)
(* smq is s.mq and gmq the middlewares of one RouterGroup, both slices     *)
(* over backing.  A route keeps the group list it was registered with, as  *)
(* the slice header passed by value; s.mq is read when a request arrives.  *)
(***************************************************************************)
MaxExtra == 2

\* the stages New puts on s.mq
ServerStages == <<"errorHandler", "logger", "tracker", "timeout", "context">>

RouteNames == {"grouped", "plain"}

Unregistered ==
    [registered |-> FALSE, mws |-> NoQueue, groupAt |-> <<>>, globalAt |-> 0]

\* a composition that puts the group's stages around the global ones
ComposeGroupOutside(b, global, mws, handler) ==
    Apply(Elems(b, mws), Apply(Elems(b, global), handler))

\* createControllerHandler: the group's stages around the controller
\* handler, the global stages around those
ComposeHandler(b, global, mws, handler) ==
    Apply(Elems(b, global),
          IF mws.len > 0 THEN Apply(Elems(b, mws), handler) ELSE handler)

ComposeIdle == routes = [r \in RouteNames |-> Unregistered]

\* New, then s.NewRouterGroup(prefix)
ComposeInit ==
    /\ backing = [a \in {1, 2} |-> IF a = 1 THEN ServerStages ELSE <<>>]
    /\ smq = [arr |-> 1, len |-> Len(ServerStages)]
    /\ gmq = [arr |-> 2, len |-> 0]
    /\ order = <<>>
    /\ served = [list |-> <<>>, authorized |-> TRUE, route |-> ""]
    /\ ComposeIdle

ComposeFrame ==
    /\ UNCHANGED <<gcx, gcxHist, methodHandlers, muxPatterns, regHist>>
    /\ UNCHANGED <<env, accept, rl, calls, sleepers, sinkMu, hcall, tpc, life>>
    /\ UNCHANGED <<pvars, cvars, svars>>

\* s.UseMiddleware(m)
ComposeUseGlobal(m) ==
    /\ order = <<>>
    /\ smq.len < Len(ServerStages) + MaxExtra
    /\ \E res \in {Use(backing, smq, gmq, m)} :
          /\ backing' = res.b
          /\ smq' = res.q
    /\ UNCHANGED <<gmq, order, served, routes>>
    /\ ComposeFrame

\* rg.Use(m)
ComposeUseGroup(m) ==
    /\ order = <<>>
    /\ gmq.len < MaxExtra
    /\ \E res \in {Use(backing, gmq, smq, m)} :
          /\ backing' = res.b
          /\ gmq' = res.q
    /\ UNCHANGED <<smq, order, served, routes>>
    /\ ComposeFrame

\* rg.OnGet(path, controller) for the grouped route, s.OnGet(path,
\* controller) for the plain one
ComposeRegister(r) ==
    /\ order = <<>>
    /\ ~routes[r].registered
    /\ routes' = [routes EXCEPT ![r] =
                     [registered |-> TRUE,
                      mws |-> IF r = "grouped" THEN gmq ELSE NoQueue,
                      groupAt |-> IF r = "grouped" THEN Elems(backing, gmq)
                                  ELSE <<>>,
                      globalAt |-> smq.len]]
    /\ UNCHANGED <<backing, smq, gmq, order, served>>
    /\ ComposeFrame

\* a request for the route reaches the handler createControllerHandler made
ComposeServe(r, authorized) ==
    /\ order = <<>>
    /\ routes[r].registered
    /\ order' = ServeHTTP(ComposeHandler(backing, smq, routes[r].mws,
                                         FinalHandler), authorized)
    /\ served' = [list |-> Elems(backing, smq), authorized |-> authorized,
                  route |-> r]
    /\ UNCHANGED <<backing, smq, gmq, routes>>
    /\ ComposeFrame

ComposeNext ==
    \/ \E m \in Stages : ComposeUseGlobal(m)
    \/ \E m \in Stages : ComposeUseGroup(m)
    \/ \E r \in RouteNames : ComposeRegister(r)
    \/ \E r \in RouteNames, authorized \in BOOLEAN : ComposeServe(r, authorized)

(***************************************************************************)
(* The controller handler of createControllerHandler: the lifecycle steps  *)
(***************************************************************************)
LifecycleSteps == <<"Init", "SanityCheck", "ParseRequest", "Serve", "Finalize">>

\* the error the handler records when the step returns one
StepError(step) ==
    CASE step = "Init" -> ErrInternal("Controller init failed")
      [] step = "SanityCheck" -> ErrBadRequest("Sanity check failed")
      [] step = "ParseRequest" -> ErrBadRequest("Parse request failed")
      [] step = "Serve" -> ErrInternal("Controller serve failed")
      [] step = "Finalize" -> ErrInternal("Controller finalize failed")

\* a handler that goes on to the next step after recording an error
AfterStepFallThrough(failed, i) ==
    IF i = Len(LifecycleSteps) THEN "return" ELSE "call"

\* if err != nil { SetError(...); return }; after Finalize the handler ends
AfterStep(failed, i) ==
    IF failed \/ i = Len(LifecycleSteps) THEN "return" ELSE "call"

IdleLife == [n |-> 0, pc |-> "idle", step |-> 0, fails |-> {}, err |-> FALSE,
             ran |-> <<>>]

LifeIdle == life = IdleLife

LifeInit == life = IdleLife /\ SlotIdle

LifeFrame ==
    /\ UNCHANGED <<backing, smq, gmq, order, served>>
    /\ UNCHANGED <<methodHandlers, muxPatterns, regHist>>
    /\ UNCHANGED <<env, accept, rl, calls, sleepers, sinkMu, hcall, tpc, routes>>
    /\ UNCHANGED <<pvars, cvars, svars>>

\* a request reaches the controller handler with a fresh *Context; fails is
\* the set of steps of its controller that return an error
LifeBegin(fails) ==
    /\ life.pc \in {"idle", "return"}
    /\ life.n < MaxRequests
    /\ life' = [n |-> life.n + 1, pc |-> "call", step |-> 1, fails |-> fails,
                err |-> FALSE, ran |-> <<>>]
    /\ gcx' = WithContext(PlainContext)
    /\ gcxHist' = <<>>
    /\ LifeFrame

\* err = cloned.<step>(ctx)
LifeCall ==
    /\ life.pc = "call"
    /\ life' = [life EXCEPT !.pc = "check",
                            !.err = LifecycleSteps[life.step] \in life.fails,
                            !.ran = Append(@, LifecycleSteps[life.step])]
    /\ UNCHANGED <<gcx, gcxHist>>
    /\ LifeFrame

\* if err != nil { SetError(ctx, Err...(msg, err)); return }
LifeCheck ==
    /\ life.pc = "check"
    /\ \E e \in {StepError(LifecycleSteps[life.step])} :
          IF life.err
          THEN /\ gcx' = SetErrorIn(gcx, e)
               /\ gcxHist' = Append(gcxHist, SlotCall("SetError", AppErrorKey,
                                                      AppErrorV(e), FALSE, NilError, FALSE))
          ELSE UNCHANGED <<gcx, gcxHist>>
    /\ \E pc \in {AfterStep(life.err, life.step)} :
          life' = [life EXCEPT !.pc = pc,
                               !.step = IF pc = "call" THEN @ + 1 ELSE @,
                               !.err = FALSE]
    /\ LifeFrame

LifeNext ==
    \/ \E fails \in SUBSET {LifecycleSteps[i] : i \in DOMAIN LifecycleSteps} :
          LifeBegin(fails)
    \/ LifeCall
    \/ LifeCheck

LateIdle == StreamIdle /\ LimiterIdle /\ RaceIdle /\ ComposeIdle /\ LifeIdle

ExtrasIdle == QueueIdle /\ SlotIdle /\ RoutesIdle /\ LateIdle

(***************************************************************************)
(* Specifications                                                          *)
(***************************************************************************)
Init == PipelineInit /\ CloneIdle /\ SinksIdle /\ ExtrasIdle

Next == PipelineNext

Spec == Init /\ [][Next]_vars

SpecCloneInit ==
    CloneInit /\ timeout = 0 /\ script = <<>> /\ PipelineIdle /\ SinksIdle /\ ExtrasIdle

SpecClone == SpecCloneInit /\ [][CloneNext]_vars

SpecWrapperInit ==
    WrapperInit /\ timeout = 0 /\ script = <<>> /\ PipelineIdle /\ SinksIdle /\ ExtrasIdle

SpecWrapper == SpecWrapperInit /\ [][WrapperNext]_vars

OthersIdle == timeout = 0 /\ script = <<>> /\ PipelineIdle /\ CloneIdle

SpecGuardInit == GuardIdle /\ DeferIdle /\ OthersIdle /\ ExtrasIdle

SpecGuard == SpecGuardInit /\ [][GuardNext]_vars

SpecDeferInit == DeferInit /\ GuardIdle /\ OthersIdle /\ ExtrasIdle

SpecDefer == SpecDeferInit /\ [][DeferNext]_vars

SpecQueueInit ==
    QueueIdle /\ SlotIdle /\ RoutesIdle /\ SinksIdle /\ OthersIdle /\ LateIdle

SpecQueue == SpecQueueInit /\ [][QueueNext]_vars

SpecSlotInit ==
    SlotInit /\ QueueIdle /\ RoutesIdle /\ SinksIdle /\ OthersIdle /\ LateIdle

SpecSlot == SpecSlotInit /\ [][SlotNext]_vars

SpecRoutesInit ==
    RoutesIdle /\ QueueIdle /\ SlotIdle /\ SinksIdle /\ OthersIdle /\ LateIdle

SpecRoutes == SpecRoutesInit /\ [][RoutesNext]_vars

\* The deadline timer and the request goroutine keep running; nothing makes
\* the handler on the worker goroutine take its next step.
SpecLive ==
    /\ Init
    /\ [][Next]_vars
    /\ WF_vars(TimerFire)
    /\ WF_vars(SupervisorSelect)
    /\ WF_vars(SupervisorClosePanic)
    /\ WF_vars(SupervisorCloseDone)
    /\ WF_vars(SupervisorCancel)

SpecStreamInit ==
    /\ StreamInit /\ CloneIdle /\ SinksIdle
    /\ QueueIdle /\ SlotIdle /\ RoutesIdle /\ LimiterIdle /\ RaceIdle
    /\ ComposeIdle /\ LifeIdle

BaseIdle == OthersIdle /\ SinksIdle /\ QueueIdle /\ SlotIdle /\ RoutesIdle

SpecLimiterInit ==
    LimiterInit /\ StreamIdle /\ RaceIdle /\ ComposeIdle /\ LifeIdle /\ BaseIdle

SpecRaceInit ==
    /\ RaceInit /\ DeferIdle /\ OthersIdle
    /\ QueueIdle /\ SlotIdle /\ RoutesIdle /\ StreamIdle /\ LimiterIdle
    /\ ComposeIdle /\ LifeIdle

SpecComposeInit ==
    /\ ComposeInit /\ SlotIdle /\ RoutesIdle /\ SinksIdle /\ OthersIdle
    /\ StreamIdle /\ LimiterIdle /\ RaceIdle /\ LifeIdle

SpecCompose == SpecComposeInit /\ [][ComposeNext]_vars

SpecLifecycleInit ==
    /\ LifeInit /\ QueueIdle /\ RoutesIdle /\ SinksIdle /\ OthersIdle
    /\ StreamIdle /\ LimiterIdle /\ RaceIdle /\ ComposeIdle

SpecLifecycle == SpecLifecycleInit /\ [][LifeNext]_vars

SpecRace == SpecRaceInit /\ [][RaceNext]_vars

SpecLimiter ==
    /\ SpecLimiterInit
    /\ [][LimiterNext]_vars
    /\ \A th \in 1..(MaxCallers + MaxLookups) : WF_vars(LimiterStep(th))

SpecStream == SpecStreamInit /\ [][PipelineNext]_vars

(***************************************************************************)
(* Properties of the request pipeline (checked under Spec)                 *)
(***************************************************************************)
HandlerRecordsError == \E i \in DOMAIN script : script[i] = "SetError"

ChainReturned == mpc \in {"ehCheck", "ehReset", "ehRespond", "ehCommit", "done"}

Quiescent == crashed \/ (mpc = "done" /\ wpc \in {"none", "exit"})

\* C1: with a positive timeout, once the deadline timer has fired, no byte
\* the handler writes afterwards ("late") reaches the underlying connection,
\* in any interleaving of worker, supervisor and error-interception stage.
C1_NoLateByteOnWire ==
    timeout >= 1 => \A i \in DOMAIN wire.body : wire.body[i].tok # "late"

\* C2: when the supervisor's select resolves on the fired deadline, a timeout
\* error is in the request's error slot by the time the chain has returned to
\* ErrorHandlerMiddleware, and the client is answered by the error responder
\* with the timeout status instead of the committed buffer.
C2_TimeoutRecordedAndAnswered ==
    (resolved = "timedout" /\ ChainReturned) =>
        /\ GetError(errorSlot) # NilError
        /\ ~HandlerRecordsError => GetError(errorSlot).Code = StatusRequestTimeout
        /\ mpc = "done" =>
              /\ Len(wire.status) = 1
              /\ wire.status[1].by = "errorResponder"
              /\ ~HandlerRecordsError => wire.status[1].code = StatusRequestTimeout

\* C3: a handler panic with value v, observed synchronously (timeout < 1) or
\* by the supervisor (positive timeout), ends with the panic responder's
\* status 500 and the message "Internal Server Error", and v is never in the
\* body.
C3_PanicAnsweredWith500 ==
    (handlerPanicked /\ mpc = "done" /\ (timeout < 1 \/ resolved = "panicked")) =>
        /\ wire.status = <<[by |-> "panicResponder", code |-> StatusInternalServerError]>>
        /\ \E i \in DOMAIN wire.body : wire.body[i].tok = "Internal Server Error"
        /\ \A i \in DOMAIN wire.body : wire.body[i].tok # PanicValue

\* C4: for a request whose handler panics, the panic logger receives exactly
\* one report over the whole pipeline: never more than one, and exactly one,
\* carrying the panic value, once both goroutines have finished.
C4_ExactlyOneCrashReport ==
    handlerPanicked =>
        /\ Len(reports) <= 1
        /\ Quiescent => reports = <<PanicValue>>

\* C4 witness: the worker's handler panicked, the supervisor received the
\* panic, the request finished, and one report stands.
C4_SupervisedPanicReportedOnce ==
    /\ handlerPanicked
    /\ timeout >= 1
    /\ resolved = "panicked"
    /\ mpc = "done"
    /\ wpc = "exit"
    /\ reports = <<PanicValue>>

\* C5: for every outcome exactly one response is transmitted: the status
\* line reaches the underlying connection at most once, exactly once when
\* the request is over, sent by the commit, the error responder or the panic
\* responder, and every body byte on the connection comes from that same
\* component.
C5_ExactlyOneResponse ==
    /\ Len(wire.status) <= 1
    /\ (mpc = "done" \/ crashed) =>
          /\ Len(wire.status) = 1
          /\ wire.status[1].by \in {"commit", "errorResponder", "panicResponder"}
    /\ \A i \in DOMAIN wire.body :
          /\ wire.status # <<>>
          /\ wire.body[i].by = wire.status[1].by

(***************************************************************************)
(* Properties of CloneController (checked under SpecClone)                 *)
(***************************************************************************)
Built(r) == rpc[r] \in {"serving", "mutated"}

\* a step of CloneController taken by request r
IsCloneStep(r) ==
    \/ (rpc[r] = "idle" /\ rpc'[r] # "idle")
    \/ (rpc[r] = "cloning" /\ rpc'[r] # "cloning")

\* the cells of the template: everything allocated before the first clone
TemplateCells(h) == SubSeq(h, 1, tmpl.ref)

\* C6: a value written through one clone (MutVal) is never visible through
\* the template, nor through a clone that has not written it itself.
C6_CloneIsolation ==
    /\ MutVal \notin Visible(heap, tmpl)
    /\ \A r \in Requests :
          rpc[r] = "serving" => MutVal \notin Visible(heap, inst[r])

\* C7: no step of CloneController, of any request and in any interleaving
\* with the other requests' clones, changes a cell of the template or the
\* template pointer.
C7_CloneNeverWritesTemplate ==
    [][(\E r \in Requests : IsCloneStep(r)) =>
          (TemplateCells(heap') = TemplateCells(heap) /\ tmpl' = tmpl)]_vars

\* C7 witness: one request holds a finished clone while another has
\* allocated its instance and is about to copy the same template's fields.
C7_ConcurrentClones ==
    \E r1, r2 \in Requests :
        /\ r1 # r2
        /\ tmpl.ref # 0
        /\ rpc[r1] = "serving"
        /\ rpc[r2] = "cloning"

C9_NoSharedChannel ==
    \A r \in Requests :
        Built(r) =>
            /\ \A i \in DOMAIN RootOf(heap, inst[r]).fs :
                  RootOf(heap, inst[r]).fs[i].v.k = "chan" =>
                      RootOf(heap, inst[r]).fs[i].v.ref = 0
            /\ HeldRefs(heap, inst[r], "chan") \cap HeldRefs(heap, tmpl, "chan") = {}
            /\ \A q \in Requests \ {r} :
                  Built(q) =>
                      HeldRefs(heap, inst[r], "chan") \cap HeldRefs(heap, inst[q], "chan") = {}

\* C10: a finished clone holds the very closures the template holds, and the
\* counter a closure captures equals the calls made through the template and
\* through the clones together.
C10_CallableShared ==
    /\ \A r \in Requests :
          Built(r) => HeldRefs(heap, inst[r], "func") = HeldRefs(heap, tmpl, "func")
    /\ \A f \in HeldRefs(heap, tmpl, "func") :
          heap[f].slots[1].v.n = invoked.template + invoked.clone

\* C10 witness: the callable has been invoked through the template and
\* through a clone, and the one captured counter shows both calls.
C10_CalledThroughBoth ==
    /\ invoked.template >= 1
    /\ invoked.clone >= 1
    /\ \E f \in HeldRefs(heap, tmpl, "func") :
          heap[f].slots[1].v.n = invoked.template + invoked.clone

\* v is a nil reference of the given kind
NilRefField(v, kind) == v.k = kind /\ v.ref = 0

TimedOutBefore(i) == \E j \in 1..(i - 1) : twHist[j].op = "markTimeout"

\* C12: every call made on the guarded sink after markTimeout is rejected:
\* a Write returns zero bytes and the timeout error, and neither the wrapped
\* writer nor the sink's header state changes after the first markTimeout.
C12_LateCallsRejected ==
    /\ \A i \in DOMAIN twHist :
          (twHist[i].op = "Write" /\ TimedOutBefore(i)) =>
              (twHist[i].n = 0 /\ twHist[i].err = ErrHandlerTimeout)
    /\ twAtTimeout.taken =>
          /\ twOrig = twAtTimeout.w
          /\ tw.isHeaderWritten = twAtTimeout.t.isHeaderWritten
          /\ tw.statusCode = twAtTimeout.t.statusCode

\* C12 witness: a Write was accepted and reached the wrapped writer,
\* markTimeout was called, and a later Write was turned away.
C12_WriteTurnedAway ==
    \E i, j \in DOMAIN twHist :
        /\ i < j
        /\ twHist[i].op = "Write" /\ twHist[i].n = 1
        /\ twHist[j].op = "Write" /\ TimedOutBefore(j) /\ twHist[j].n = 0
        /\ twOrig.body # <<>>
\* C13: once markTimeout has been called the guarded sink stays timed out
\* whatever is called next, and a further markTimeout changes neither the
\* sink nor the wrapped writer.
C13_TimedOutIsTerminal ==
    [][/\ tw.isTimeout => tw'.isTimeout
       /\ (/\ tw.isTimeout
           /\ Len(twHist') = Len(twHist) + 1
           /\ twHist'[Len(twHist')].op = "markTimeout")
             => (tw' = tw /\ twOrig' = twOrig)
       /\ (\E i \in DOMAIN twHist : twHist[i].op = "markTimeout") => tw.isTimeout]_vars

\* C13 witness: markTimeout was called twice, with a Write, WriteHeader or
\* Flush between the two calls, on a sink that had already sent its header.
C13_MarkedTwice ==
    \E i, j, k \in DOMAIN twHist :
        /\ i < j /\ j < k
        /\ twHist[i].op = "markTimeout"
        /\ twHist[j].op \in {"Write", "WriteHeader", "Flush"}
        /\ twHist[k].op = "markTimeout"
        /\ tw.isTimeout
        /\ tw.isHeaderWritten
\* the calls that can send a status and arrived before any markTimeout
StatusCalls ==
    {i \in DOMAIN twHist :
        twHist[i].op \in {"Write", "WriteHeader"} /\ ~TimedOutBefore(i)}

\* C14: the guarded sink passes at most one status to the wrapped writer,
\* and it is the one of the first call that could send it: the code of a
\* WriteHeader, or 200 when a Write came first; later WriteHeader calls
\* change nothing.
C14_FirstStatusWins ==
    /\ Len(twOrig.status) <= 1
    /\ StatusCalls = {} => (twOrig.status = <<>> /\ tw.statusCode = StatusOK)
    /\ StatusCalls # {} =>
          \E i \in StatusCalls :
              /\ \A j \in StatusCalls : i <= j
              /\ \E code \in {IF twHist[i].op = "WriteHeader"
                              THEN twHist[i].arg ELSE StatusOK} :
                    /\ twOrig.status = <<[by |-> "caller", code |-> code]>>
                    /\ tw.statusCode = code

\* C14 witness: two WriteHeader calls with different codes reached an open
\* sink, and the wrapped writer holds the first code only.
C14_SecondCodeIgnored ==
    \E i, j \in StatusCalls :
        /\ i < j
        /\ \A k \in StatusCalls : i <= k
        /\ twHist[i].op = "WriteHeader" /\ twHist[j].op = "WriteHeader"
        /\ twHist[i].arg # twHist[j].arg
        /\ twOrig.status = <<[by |-> "caller", code |-> twHist[i].arg]>>
\* the deferred sink has been asked to do op at some point
Called(op) == \E i \in DOMAIN dsHist : dsHist[i].op = op

\* C15: as long as Commit has not been called on the deferred sink, the
\* wrapped writer is exactly as it was handed in: same headers, no status, no
\* body, no flush.
C15_NothingBeforeCommit ==
    ~Called("Commit") => dsOrig = dsStart

\* C15 witness: Write, WriteHeader, Header().Set and Flush have all been
\* called, Commit has not, and the wrapped writer is untouched while the sink
\* holds the bytes.
C15_BufferedOnly ==
    /\ Called("Write") /\ Called("WriteHeader")
    /\ Called("Header.Set") /\ Called("Flush")
    /\ ~Called("Commit")
    /\ ds.buffer # <<>>
    /\ dsOrig = dsStart
\* what a sequence of calls asked for: the headers set, the status chosen
\* and the bytes written, read off the calls themselves
HeadersAsked(h) ==
    [k \in HeaderNames |->
        LET sets == SelectSeq(h, LAMBDA c : c.op = "Header.Set" /\ c.arg[1] = k)
        IN  IF sets = <<>> THEN <<>> ELSE <<sets[Len(sets)].arg[2]>>]

StatusAsked(h) ==
    LET whs == SelectSeq(h, LAMBDA c : c.op = "WriteHeader")
    IN  IF whs = <<>> THEN StatusOK ELSE whs[1].arg

BodyAsked(h) ==
    LET ws == SelectSeq(h, LAMBDA c : c.op = "Write")
    IN  [i \in 1..Len(ws) |-> [by |-> "commit", tok |-> ws[i].arg]]

\* the calls made so far are buffering calls followed by one Commit
CommittedOnce ==
    /\ dsHist # <<>>
    /\ dsHist[Len(dsHist)].op = "Commit"
    /\ \A i \in 1..(Len(dsHist) - 1) : dsHist[i].op \notin {"Commit", "Reset"}

\* C16: when headers H, a status S and a body B have been given to a deferred
\* sink and Commit is then called, the wrapped writer has received H added to
\* its own headers before the one status line S, and then B in the order it
\* was written, and nothing else.
C16_CommitRoundTrip ==
    CommittedOnce =>
        /\ dsOrig.header = HeaderAddAll(dsStart.header, HeadersAsked(dsHist))
        /\ dsOrig.sent = dsOrig.header
        /\ dsOrig.status = <<[by |-> "commit", code |-> StatusAsked(dsHist)]>>
        /\ dsOrig.body = BodyAsked(dsHist)
        /\ dsOrig.flushes = 0

\* C16 witness: a header, a status other than the default and a body were
\* given, Commit was called, and all three are on the wrapped writer.
C16_AllThreeCommitted ==
    /\ CommittedOnce
    /\ Called("Header.Set") /\ Called("WriteHeader") /\ Called("Write")
    /\ dsOrig.sent["X-Custom"] # <<>>
    /\ Len(dsOrig.status) = 1 /\ dsOrig.status[1].code \in Codes
    /\ dsOrig.body # <<>>
\* the n-th call from the end of the calls made on the deferred sink
LastCall(n) ==
    IF Len(dsHist) >= n THEN dsHist[Len(dsHist) - n + 1].op ELSE "none"

\* C17: right after Reset the deferred sink holds no bytes, no headers and
\* the default status; and a Commit that follows a Reset on a sink not yet
\* committed sends the default status, no body and none of the headers that
\* were set before the Reset.
C17_ResetDiscards ==
    /\ LastCall(1) = "Reset" =>
          /\ ds.buffer = <<>>
          /\ ds.header = EmptyHeader
          /\ ds.statusCode = StatusOK
    /\ (/\ LastCall(1) = "Commit"
        /\ LastCall(2) = "Reset"
        /\ \A i \in 1..(Len(dsHist) - 1) : dsHist[i].op # "Commit") =>
          /\ dsOrig.header = dsStart.header
          /\ dsOrig.sent = dsStart.header
          /\ dsOrig.status = <<[by |-> "commit", code |-> StatusOK]>>
          /\ dsOrig.body = <<>>

\* C17 witness: bytes and a header were buffered, Reset was called and then
\* Commit, and the wrapped writer got the default status and no body.
C17_DiscardedThenCommitted ==
    /\ LastCall(1) = "Commit" /\ LastCall(2) = "Reset"
    /\ Called("Write") /\ Called("Header.Set")
    /\ dsOrig.status = <<[by |-> "commit", code |-> StatusOK]>>
    /\ dsOrig.body = <<>>
    /\ dsOrig.sent = dsStart.header
\* C18: a Commit called on a deferred sink on which Commit was already
\* called is a no-op: it leaves the wrapped writer exactly as it was, so
\* nothing buffered is sent by a second Commit.
C18_RepeatedCommitIsNoOp ==
    [][(/\ Called("Commit")
        /\ Len(dsHist') = Len(dsHist) + 1
        /\ dsHist'[Len(dsHist')].op = "Commit")
          => dsOrig' = dsOrig]_vars

\* C19: once Commit has been called the deferred sink stays committed,
\* whatever is called next, and the wrapped writer has received one status
\* line at most.
C19_CommittedIsTerminal ==
    Called("Commit") => (ds.isCommitted /\ Len(dsOrig.status) <= 1)
\* the calls made on the deferred sink since it was created or last Reset
SinceReset ==
    LET rs == {i \in DOMAIN dsHist : dsHist[i].op = "Reset"}
    IN  IF rs = {} THEN dsHist
        ELSE SubSeq(dsHist, (CHOOSE i \in rs : \A j \in rs : j <= i) + 1,
                    Len(dsHist))

\* the calls of h that came before its first Commit
BeforeCommit(h) ==
    LET cs == {i \in DOMAIN h : h[i].op = "Commit"}
    IN  IF cs = {} THEN h
        ELSE SubSeq(h, 1, (CHOOSE i \in cs : \A j \in cs : i <= j) - 1)

\* C20: the status the deferred sink stores is the code of the first
\* WriteHeader made since it was created or last Reset (200 if there was
\* none), and that is the status a Commit sends; later WriteHeader calls
\* change nothing.
C20_FirstWriteHeaderWins ==
    /\ ds.statusCode = StatusAsked(SinceReset)
    /\ (\E i \in DOMAIN SinceReset : SinceReset[i].op = "Commit") =>
          /\ dsOrig.status # <<>>
          /\ dsOrig.status[Len(dsOrig.status)] =
                [by |-> "commit", code |-> StatusAsked(BeforeCommit(SinceReset))]

\* C20 witness: two WriteHeader calls with different codes were made, then
\* Commit, and the wrapped writer received the first code.
C20_FirstCodeCommitted ==
    \E i, j, k \in DOMAIN dsHist :
        /\ i < j /\ j < k
        /\ \A m \in DOMAIN dsHist : dsHist[m].op = "WriteHeader" => i <= m
        /\ dsHist[i].op = "WriteHeader" /\ dsHist[j].op = "WriteHeader"
        /\ dsHist[i].arg # dsHist[j].arg
        /\ dsHist[k].op = "Commit"
        /\ ~Called("Reset")
        /\ dsOrig.status = <<[by |-> "commit", code |-> dsHist[i].arg]>>
\* the response the error responder alone sends for err
ErrorResponseOnly(err) ==
    [header  |-> HeaderSet(EmptyHeader, "Content-Type",
                           "application/json; charset=utf-8"),
     sent    |-> HeaderSet(EmptyHeader, "Content-Type",
                           "application/json; charset=utf-8"),
     status  |-> <<[by |-> "errorResponder", code |-> err.Code]>>,
     body    |-> <<[by |-> "errorResponder", tok |-> err.Message]>>,
     flushes |-> 0]

\* C21: when the chain returns to ErrorHandlerMiddleware with an error in
\* the slot, the stage takes the error path; when it has answered, the
\* connection holds exactly the error response with the recorded code and
\* message, the error callback has run once, and nothing the handler wrote,
\* before or after, is on the connection then or later.
C21_ErrorDiscardsBuffered ==
    [][/\ (mpc = "ehCheck" /\ mpc' # "ehCheck" /\ GetError(errorSlot) # NilError)
             => mpc' = "ehReset"
       /\ mpc \in {"ehReset", "ehRespond"} => wire = NewWire
       /\ (mpc = "ehRespond" /\ mpc' = "done") =>
             /\ wire' = ErrorResponseOnly(errorSlot)
             /\ callbacks' = [onError |-> 1, onPanic |-> 0]
       /\ (mpc = "done" /\ callbacks.onError > 0) =>
             (wire' = wire /\ callbacks' = callbacks)]_vars

\* C21 witness: the handler wrote a body and then recorded an error; the
\* stage has answered with the error response and called the callback once.
C21_PartialOutputDropped ==
    /\ mpc = "done"
    /\ script = <<"Write", "SetError">>
    /\ hpc > Len(script)
    /\ callbacks.onError = 1
    /\ wire = ErrorResponseOnly(ErrBadRequest("invalid input"))
\* the operations the handler has performed so far, in order
Performed == SubSeq(script, 1, hpc - 1)

\* how many of the operations in ops are op
CountOf(ops, op) == Len(SelectSeq(ops, LAMBDA o : o = op))

\* C22: when the chain returns to ErrorHandlerMiddleware with no error in
\* the slot, the stage takes the commit path; the commit puts on the
\* connection, untouched until then, the header, the status and the body the
\* handler had buffered, and neither the error responder nor a callback runs.
C22_NoErrorCommitsBuffered ==
    [][/\ (mpc = "ehCheck" /\ mpc' # "ehCheck" /\ errorSlot = NilError)
             => mpc' = "ehCommit"
       /\ mpc = "ehCommit" => wire = NewWire
       /\ (mpc = "ehCommit" /\ mpc' = "done") =>
             /\ wire'.header = dw.header
             /\ wire'.sent = dw.header
             /\ (wire'.header["X-Custom"] # <<>>) = (CountOf(Performed, "Header.Set") > 0)
             /\ wire'.status =
                   <<[by |-> "commit",
                      code |-> IF CountOf(Performed, "WriteHeader") > 0
                               THEN StatusCreated ELSE StatusOK]>>
             /\ wire'.body = [i \in DOMAIN dw.buffer |->
                                 [by |-> "commit", tok |-> dw.buffer[i]]]
             /\ Len(wire'.body) = CountOf(Performed, "Write")
             /\ callbacks' = [onError |-> 0, onPanic |-> 0]
       /\ (mpc = "done" /\ wire.status # <<>> /\ wire.status[1].by = "commit") =>
             /\ callbacks' = [onError |-> 0, onPanic |-> 0]
             /\ \A i \in DOMAIN wire'.status : wire'.status[i].by = "commit"
             /\ \A i \in DOMAIN wire'.body :
                   wire'.body[i].by \in {"commit", "handler"}]_vars

\* C22 witness: the handler set a status and wrote a body, recorded no
\* error, and the stage committed both.
C22_CreatedCommitted ==
    /\ mpc = "done"
    /\ script = <<"WriteHeader", "Write">>
    /\ errorSlot = NilError
    /\ wire.status = <<[by |-> "commit", code |-> StatusCreated]>>
    /\ wire.body = <<[by |-> "commit", tok |-> "body"]>>
    /\ callbacks = [onError |-> 0, onPanic |-> 0]
C26_ResolvedOnce ==
    [][/\ resolved # "none" =>
             /\ resolved' = resolved
             /\ Len(doneChan'.buf) >= Len(doneChan.buf)
             /\ Len(panicChan'.buf) >= Len(panicChan.buf)
             /\ mpc # "select" /\ mpc' # "select"
       /\ (resolved = "none" /\ resolved' # "none") =>
             /\ mpc = "select" /\ mpc' = "closePanic"
             /\ resolved' = "completed" => doneChan.buf # <<>>
             /\ resolved' = "panicked" => panicChan.buf # <<>>
             /\ resolved' = "timedout" => ctxErr = "deadline"
             /\ resolved' = "canceled" => ctxErr = "canceled"
       /\ resolved \in {"none", "completed", "timedout", "canceled", "panicked"}]_vars

\* C26 witness: the request resolved as timed out, the handler panicked
\* afterwards, and with both goroutines finished the outcome is still timed
\* out.
C26_LatePanicKeepsOutcome ==
    /\ resolved = "timedout"
    /\ handlerPanicked
    /\ reports # <<>>
    /\ mpc = "done"
    /\ wpc = "exit"
\* C27: when the worker's deferred function catches a panic it reports it;
\* if the context is not done at that moment it goes on to signal the panic
\* on panicChan, and if the context is already done, for the deadline or for
\* a cancellation, it returns without signalling.
C27_CancelledPanicSwallowed ==
    [][(wpc = "recover" /\ wpc' # "recover") =>
          /\ reports' = Append(reports, recovered)
          /\ ctxErr = "none" => wpc' = "sendPanic"
          /\ ctxErr # "none" => wpc' = "exit"]_vars

\* The place of the first stage that stops the request: the first auth
\* stage of an unauthorized request, or one past the end when none stops it.
StopAt(list, authorized) ==
    IF authorized \/ \A i \in 1..Len(list) : list[i] # "auth"
    THEN Len(list) + 1
    ELSE CHOOSE k \in 1..Len(list) :
             list[k] = "auth" /\ \A i \in 1..(k - 1) : list[i] # "auth"

OnionOrder(list, authorized) ==
    LET k == StopAt(list, authorized)
    IN  [i \in 1..(k - 1) |-> Event(list[i], "before")]
        \o (IF k > Len(list) THEN <<Event("handler", "run")>>
                             ELSE <<Event(list[k], "deny")>>)
        \o [i \in 1..(k - 1) |-> Event(list[k - i], "after")]

\* C23: for stages registered in the order s1..sn, the handler built by
\* Apply runs the pre-processing parts in the order s1..sn, then the final
\* handler, then the post-processing parts in the order sn..s1; a stage that
\* does not call next keeps every later stage and the final handler from
\* running, and only the stages before it run their post-processing part.
C23_OnionOrdering ==
    order # <<>> =>
        /\ order = OnionOrder(served.list, served.authorized)
        /\ StopAt(served.list, served.authorized) <= Len(served.list) =>
              /\ \A i \in 1..Len(order) : order[i].stage # "handler"
              /\ Len(order) = 2 * StopAt(served.list, served.authorized) - 1

C23_ThreeStagesServed ==
    /\ served.list = <<"m1", "m2", "auth">>
    /\ served.authorized
    /\ order = << Event("m1", "before"), Event("m2", "before"),
                  Event("auth", "before"), Event("handler", "run"),
                  Event("auth", "after"), Event("m2", "after"),
                  Event("m1", "after") >>

\* C24: a cloned stage list is independent of its original: Clone leaves the
\* original as it is and gives the clone the same stages, and from then on a
\* step that changes the stages of one list changes neither the length nor
\* the contents of the other.
C24_CloneIndependent ==
    [][/\ (gmq = NoQueue /\ gmq' # NoQueue) =>
              /\ Elems(backing', gmq') = Elems(backing, smq)
              /\ Elems(backing', smq') = Elems(backing, smq)
       /\ (gmq # NoQueue /\ Elems(backing', gmq') # Elems(backing, gmq)) =>
              Elems(backing', smq') = Elems(backing, smq)
       /\ (gmq # NoQueue /\ Elems(backing', smq') # Elems(backing, smq)) =>
              Elems(backing', gmq') = Elems(backing, gmq)]_vars

C24_BothExtendedAfterClone ==
    /\ gmq # NoQueue
    /\ Elems(backing, smq) = <<"m1", "m2", "auth", "m1">>
    /\ Elems(backing, gmq) = <<"m1", "m2", "auth", "m2">>
    /\ order = <<>>

\* The calls before call i that wrote the reserved error key.
SlotWriters(i) ==
    {j \in 1..(i - 1) :
        \/ gcxHist[j].op \in {"SetError", "ClearError"}
        \/ gcxHist[j].op = "SetContextData" /\ gcxHist[j].key = AppErrorKey}

LastSlotWriter(i) ==
    CHOOSE j \in SlotWriters(i) : \A k \in SlotWriters(i) : k <= j

\* The key was last written by SetError or ClearError, or never.
SlotIsRegister(i) ==
    SlotWriters(i) # {} => gcxHist[LastSlotWriter(i)].op # "SetContextData"

\* What the register holds at call i: the error of the most recent
\* SetError since the last ClearError, nil otherwise.
RegisterAt(i) ==
    IF ~gcx.has \/ SlotWriters(i) = {} THEN NilError
    ELSE IF gcxHist[LastSlotWriter(i)].op = "SetError"
         THEN gcxHist[LastSlotWriter(i)].val.err
         ELSE NilError

\* C28: the error slot is one overwritable register: GetError returns the
\* error of the most recent SetError since the last ClearError and nil when
\* there is none, HasError is true exactly when that error is not nil, and
\* on a context without request-scoped state SetError and ClearError change
\* nothing and GetError returns nil.
C28_SlotIsRegister ==
    /\ \A i \in 1..Len(gcxHist) :
          SlotIsRegister(i) =>
             /\ gcxHist[i].op = "GetError" =>
                   /\ ~gcxHist[i].out.panicked
                   /\ gcxHist[i].out.err = RegisterAt(i)
             /\ gcxHist[i].op = "HasError" =>
                   /\ ~gcxHist[i].out.panicked
                   /\ gcxHist[i].out.has = (RegisterAt(i) # NilError)
    /\ ~gcx.has => gcx = PlainContext

C28_OverwrittenThenRead ==
    /\ gcx.has
    /\ Len(gcxHist) = 4
    /\ gcxHist[1] = SlotCall("SetError", AppErrorKey,
                             AppErrorV(ErrBadRequest("test error")),
                             FALSE, NilError, FALSE)
    /\ gcxHist[2] = SlotCall("SetError", AppErrorKey,
                             AppErrorV(ErrInternal("test")),
                             FALSE, NilError, FALSE)
    /\ gcxHist[3].op = "GetError"
    /\ gcxHist[3].out.err = ErrInternal("test")
    /\ gcxHist[4].op = "HasError"
    /\ gcxHist[4].out.has

\* C29: GetError handles a value of the wrong type under the reserved error
\* key gracefully: it returns nil and does not panic.
C29_WrongTypeYieldsNil ==
    \A i \in 1..Len(gcxHist) :
        gcxHist[i].op = "GetError" =>
            /\ ~gcxHist[i].out.panicked
            /\ (~SlotIsRegister(i)) => gcxHist[i].out.err = NilError

\* The registrations of the pair (method, path) among the first i calls.
RegistrationsOf(method, path, i) ==
    {j \in 1..i : /\ regHist[j].op = "register"
                  /\ regHist[j].method = method
                  /\ regHist[j].path = path}

FirstRegistration(method, path) ==
    CHOOSE j \in RegistrationsOf(method, path, Len(regHist)) :
        \A k \in RegistrationsOf(method, path, Len(regHist)) : j <= k

\* C30: registering a handler template for a (method, path) pair that is
\* already registered is rejected and reported, and never replaces the
\* first registration: every request is served by the handler of the
\* pair's first registration.
C30_DuplicateRejected ==
    /\ \A i \in 1..Len(regHist) :
          (/\ regHist[i].op = "register"
           /\ RegistrationsOf(regHist[i].method, regHist[i].path, i - 1) # {})
             => regHist[i].rejected
    /\ \A path \in DOMAIN methodHandlers :
          \A method \in DOMAIN methodHandlers[path] :
             methodHandlers[path][method] =
                regHist[FirstRegistration(method, path)].controller

\* The deadline the request is meant to get: the streaming timeout for a
\* request that accepts an event stream, the regular timeout otherwise.
IntendedTimeout ==
    IF accept = EventStream THEN SSETimeout(env) ELSE WriteTimeout(env)

\* C31: for a request whose Accept header signals an event stream the
\* supervisor takes the streaming timeout as the deadline instead of the
\* regular timeout, and a zero or negative streaming timeout disables
\* supervision for that request.
C31_StreamingTimeoutUsed ==
    [][(mpc = "timeout" /\ mpc' # "timeout" /\ accept = EventStream) =>
          /\ timeout = SSETimeout(env)
          /\ SSETimeout(env) < 1 => (mpc' = "sync" /\ wpc' = "none")
          /\ SSETimeout(env) >= 1 => (mpc' = "select" /\ wpc' = "check1")]_vars

\* The removal goroutine of key k has deleted the key's entry.
Removed(k) ==
    \E i \in 1..Len(sleepers) :
        sleepers[i].key = k /\ sleepers[i].pc \in {"Unlock", "done"}

\* C32: GetLimiter keeps at most one limiter per key: a call returns a
\* limiter, calls with the same key return the same instance until the
\* key's entry is removed by its TTL, and calls with different keys return
\* different instances, however the calling goroutines interleave.
C32_OneLimiterPerKey ==
    /\ [](\A i, j \in 1..Len(rl.returned) :
             /\ rl.returned[i].limiter # NoLimiter
             /\ (/\ rl.returned[i].key = rl.returned[j].key
                 /\ ~Removed(rl.returned[i].key))
                   => rl.returned[i].limiter = rl.returned[j].limiter
             /\ rl.returned[i].key # rl.returned[j].key
                   => rl.returned[i].limiter # rl.returned[j].limiter)
    /\ \A g \in Callers : \A k \in LimiterKeys :
          (calls[g].pc # "idle" /\ calls[g].key = k)
             ~> (\E i \in 1..Len(rl.returned) :
                    /\ rl.returned[i].g = g
                    /\ rl.returned[i].key = k
                    /\ rl.returned[i].limiter # NoLimiter)

\* C40: every call to GetLimiter returns, whether the key is new or not and
\* however the calls interleave with each other and with the removal
\* goroutines, and the limiter's lock is free when no call is in progress.
C40_EveryCallReturns ==
    /\ \A g \in Callers : (calls[g].pc # "idle") ~> (calls[g].pc = "idle")
    /\ []((/\ \A g \in Callers : calls[g].pc = "idle"
           /\ \A i \in 1..Len(sleepers) : sleepers[i].pc \in {"Sleep", "done"})
             => rl.mu = FreeMutex)

\* The handler's call is past its isTimeout test and has not returned.
InsideCall == hcall.pc \in {"act", "write"}

\* C33: calls on one guarded sink from the handler goroutine and from the
\* deadline goroutine are atomic with respect to each other: markTimeout
\* never sets the flag while a call is between its test and its return, a
\* call that starts its test after the flag was set is rejected, and once
\* markTimeout has returned no call on the underlying writer is in progress
\* or starts.
C33_SinkCallsAtomic ==
    [][/\ (tw' # tw /\ tw'.isTimeout /\ ~tw.isTimeout) => ~InsideCall
       /\ tw.isTimeout => (twOrig' = twOrig /\ ~InsideCall)
       /\ tpc = "done" => (tw.isTimeout /\ twOrig' = twOrig /\ ~InsideCall)
       /\ (hcall.pc = "test" /\ tw.isTimeout) => hcall'.pc = "Unlock"]_vars

C33_WriteThenTimeoutThenRejected ==
    /\ tpc = "done"
    /\ hcall.pc = "Unlock"
    /\ hcall.op = "Write"
    /\ hcall.timedOut
    /\ hcall.n = 1
    /\ Len(twOrig.body) = 1

\* C34: the worker never sends on doneChan or panicChan after the supervisor
\* has closed them: whatever the order of the deadline, a cancellation of
\* the parent context, the worker's completion and a worker panic, no send
\* hits a closed channel and the process never dies of one.
C34_NoSendOnClosedChannel ==
    /\ ~crashed
    /\ recovered # SendOnClosed
    /\ wpc = "sendDone" => ~doneChan.closed
    /\ wpc = "sendPanic" => ~panicChan.closed

InSupervisor == mpc \in {"select", "closePanic", "closeDone", "cancel"}

\* C35: with a positive timeout every invocation of the supervisor
\* eventually returns, at the latest when the deadline timer fires, even if
\* the handler never returns.
C35_SupervisorReturns ==
    (timeout >= 1 /\ InSupervisor) ~> ~InSupervisor

\* C36: the worker observes the end of the context at its checkpoints: when
\* the deadline has expired before the worker invokes the next stage, the
\* next stage is never invoked, and when it expires while the next stage is
\* running, the worker returns without signalling completion.
C36_CheckpointsObserved ==
    [][/\ (wpc = "check1" /\ ctxErr # "none" /\ wpc' # wpc) =>
              (wpc' = "exit" /\ hpc' = hpc)
       /\ (wpc = "check2" /\ ctxErr # "none" /\ wpc' # wpc) =>
              (wpc' = "exit" /\ doneChan' = doneChan)
       /\ wpc = "exit" =>
              /\ wpc' = "exit"
              /\ hpc' = hpc
              /\ Len(doneChan'.buf) <= Len(doneChan.buf)
       /\ (wpc # "none" /\ hpc' # hpc) => wpc = "run"]_vars

C36_ExpiredWhileRunning ==
    /\ wpc = "exit"
    /\ ctxErr = "deadline"
    /\ script # <<>>
    /\ hpc = Len(script) + 1
    /\ ~handlerPanicked
    /\ resolved = "timedout"
    /\ doneChan.buf = <<>>
    /\ mpc = "done"

\* C37: a request for a route registered through a route group passes the
\* global stages first, error interception outermost and the stages added
\* to the global list after the registration included, then the stages the
\* group had in their registration order, then the controller handler; a
\* request for a route outside the group passes none of the group's stages.
C37_GlobalThenGroupThenController ==
    order # <<>> =>
        /\ order = OnionOrder(served.list \o routes[served.route].groupAt,
                              served.authorized)
        /\ SubSeq(served.list, 1, Len(ServerStages)) = ServerStages
        /\ order[1] = Event("errorHandler", "before")
        /\ order[Len(order)] = Event("errorHandler", "after")
        /\ served.route = "plain" =>
              order = OnionOrder(served.list, served.authorized)

C37_GroupedRouteServed ==
    /\ served.route = "grouped"
    /\ served.authorized
    /\ routes["grouped"].globalAt = Len(ServerStages)
    /\ served.list = ServerStages \o <<"m1">>
    /\ routes["grouped"].groupAt = <<"m2", "auth">>
    /\ Len(order) = 17
    /\ order[9] = Event("handler", "run")

\* C39: the clone made for a request from a template built with WrapFunc or
\* WrapHandler holds the template's wrapped handler, and Serve on the clone
\* never calls a nil function.
C39_WrappedHandlerKept ==
    IsWrapper(heap, tmpl) =>
        \A r \in Requests :
            /\ rpc[r] # "nilCall"
            /\ Built(r) =>
                  FieldNamed(RootOf(heap, inst[r]), "handler")
                      = FieldNamed(RootOf(heap, tmpl), "handler")

\* the SetError calls made on the request's context so far
ErrorsRecorded == SelectSeq(gcxHist, LAMBDA c : c.op = "SetError")

\* the status an error recorded for the step must carry
ExpectedCode(step) ==
    IF step \in {"SanityCheck", "ParseRequest"} THEN StatusBadRequest
    ELSE StatusInternalServerError

\* C38: the steps of a request run in the order Init, SanityCheck,
\* ParseRequest, Serve, Finalize; no step runs after one that returned an
\* error; when the handler has returned, a failing step has left exactly one
\* recorded error, internal for Init, Serve and Finalize and bad request
\* for SanityCheck and ParseRequest, and a request none of whose steps
\* failed has run all five and recorded nothing.
C38_LifecycleOrder ==
    /\ life.ran = SubSeq(LifecycleSteps, 1, Len(life.ran))
    /\ \A i \in 1..(Len(life.ran) - 1) : life.ran[i] \notin life.fails
    /\ Len(ErrorsRecorded) <= 1
    /\ life.pc = "return" =>
          IF life.ran[Len(life.ran)] \in life.fails
          THEN /\ Len(ErrorsRecorded) = 1
               /\ GetErrorFrom(gcx).err.Code = ExpectedCode(life.ran[Len(life.ran)])
               /\ GetErrorFrom(gcx).err = ErrorsRecorded[1].val.err
          ELSE /\ life.ran = LifecycleSteps
               /\ ErrorsRecorded = <<>>
               /\ GetErrorFrom(gcx).err = NilError

\* C38 witness: ParseRequest returned an error after Init and SanityCheck
\* succeeded; the handler has returned with a bad-request error recorded and
\* Serve, which would have failed too, was never called.
C38_ParseFailedServeSkipped ==
    /\ life.pc = "return"
    /\ life.fails = {"ParseRequest", "Serve"}
    /\ life.ran = <<"Init", "SanityCheck", "ParseRequest">>
    /\ Len(ErrorsRecorded) = 1
    /\ GetErrorFrom(gcx).err = ErrBadRequest("Parse request failed")

====
